---------------------------- MODULE Spec2Model ----------------------------
(***************************************************************************)
(* Model of the CodeCompass navigation core: the structural extractor      *)
(* (data_processing/ast_parser.py), the graph loader                       *)
(* (data_processing/build_graph.py), the graph queries                     *)
(* (codecompass/graph.py and the get_architectural_context tools) and the  *)
(* BM25 index and its search entry points (data_processing/                *)
(* build_bm25_index.py, codecompass/search.py, harness/sdk/tools.py,       *)
(* mcp_server/server.py).                                                  *)
(*                                                                         *)
(* A Python str is a sequence of one-character strings, a pathlib Path is  *)
(* the sequence of its components, so that split, join, with_suffix and    *)
(* the f-string metadata are computed as the code computes them.           *)
(***************************************************************************)
EXTENDS Integers, Sequences, FiniteSets, TLC

VARIABLES
    fs,         \* the source tree: Path -> [read, walk] for every *.py file
    pc,         \* the extractor function called last
    file_path,  \* the file last handed to extract_edges
    out_edges,  \* the list extract_edges / parse_repo returned
    g_nodes,    \* Neo4j: bag of File nodes, path -> number of nodes
    g_rels,     \* Neo4j: bag of relationships, <<source, target, type>> -> number
    edges_json, \* the edge list the last loader run was given
    loader,     \* the build_graph.py function that wrote to the graph last
    loads,      \* loader runs since the graph was last empty
    reloaded,   \* the last loader run repeated the run before it
    deleted,    \* File nodes the last clear_graph removed
    chunks,     \* bm25_index.pkl: the list of code chunks
    index,      \* bm25_index.pkl: the BM25 index over the chunks
    call,       \* the query entry point called last, with its arguments
    query_tokens, \* the tokens the last search handed to get_scores
    ret,        \* the value the last query returned
    pkl,        \* bm25_index.pkl on disk: the build that opened it, the writes done
    writer,     \* build_bm25_index.main: the statement reached, the build it runs
    reader,     \* BM25Backend._load of each reader: the statement reached, what it saw
    trials,     \* run_all: the pending trials build_trial_list returned
    trial,      \* run_all: the place in `trials` of the trial of the outer loop
    attempt,    \* run_all: the attempt of the retry loop, 0 before the first
    last_error, \* run_all: the error text of the last failed attempt, or None
    completed_count, \* run_all: trials counted as completed
    failed_trials,   \* run_all: the (task, condition, run, error) of failed trials
    failed_markers,  \* results/: the trials that have a _FAILED marker directory
    stmt        \* run_all: the statement reached

extractor_vars == <<fs, pc, file_path, out_edges>>
graph_vars == <<g_nodes, g_rels, edges_json, loader, loads, reloaded, deleted>>
service_vars == <<chunks, index, call, query_tokens, ret>>
store_vars == <<pkl, writer, reader>>
harness_vars == <<trials, trial, attempt, last_error, completed_count,
                  failed_trials, failed_markers, stmt>>
vars == <<fs, pc, file_path, out_edges,
          g_nodes, g_rels, edges_json, loader, loads, reloaded, deleted,
          chunks, index, call, query_tokens, ret,
          pkl, writer, reader,
          trials, trial, attempt, last_error, completed_count,
          failed_trials, failed_markers, stmt>>

----------------------------------------------------------------------------
(* Bounds *)

\* longest ast.walk sequence drawn for the file under extraction
MaxNodes == 3

\* longest edge list drawn from EdgeSet for a loader run
MaxEdges == 2

\* most loader runs between two states in which the graph is empty
MaxLoads == 2

\* most runs of build_bm25_index.main on one output path
MaxBuilds == 3

\* writes to the file that one pickle.dump takes
PickleWrites == 3

\* query processes that load the index
MaxReaders == 2

----------------------------------------------------------------------------
(* Python values *)

None == <<"None">>

\* Python truthiness of an Optional[str]
Truthy(v) == v # None /\ v # <<>>

RECURSIVE SplitAcc(_, _, _, _)
SplitAcc(s, sep, cur, acc) ==
    IF s = <<>> THEN Append(acc, cur)
    ELSE IF Head(s) = sep THEN SplitAcc(Tail(s), sep, <<>>, Append(acc, cur))
    ELSE SplitAcc(Tail(s), sep, Append(cur, Head(s)), acc)

\* str.split(sep) for a one-character separator
Split(s, sep) == SplitAcc(s, sep, <<>>, <<>>)

RECURSIVE Join(_, _)
\* sep.join(parts)
Join(sep, parts) ==
    IF parts = <<>> THEN <<>>
    ELSE IF Len(parts) = 1 THEN parts[1]
    ELSE parts[1] \o sep \o Join(sep, Tail(parts))

Upper == {"A", "B", "C", "D", "E", "F", "G", "H", "I", "J", "K", "L", "M",
          "N", "O", "P", "Q", "R", "S", "T", "U", "V", "W", "X", "Y", "Z"}

\* str.isupper() of one character
IsUpper(c) == c \in Upper

\* code points of the characters that occur in file names
Ord(c) ==
    CASE c = "." -> 46 [] c = "_" -> 95 [] c = "a" -> 97 [] c = "b" -> 98
      [] c = "g" -> 103 [] c = "i" -> 105 [] c = "k" -> 107 [] c = "m" -> 109
      [] c = "n" -> 110 [] c = "p" -> 112 [] c = "t" -> 116 [] c = "y" -> 121

RECURSIVE StrLess(_, _)
\* s < t on Python str
StrLess(s, t) ==
    IF t = <<>> THEN FALSE
    ELSE IF s = <<>> THEN TRUE
    ELSE IF Head(s) = Head(t) THEN StrLess(Tail(s), Tail(t))
    ELSE Ord(Head(s)) < Ord(Head(t))

RECURSIVE PathLess(_, _)
\* p < q on pathlib paths: component-wise comparison
PathLess(p, q) ==
    IF q = <<>> THEN FALSE
    ELSE IF p = <<>> THEN TRUE
    ELSE IF Head(p) = Head(q) THEN PathLess(Tail(p), Tail(q))
    ELSE StrLess(Head(p), Head(q))

\* str(path) of a path relative to the tree root
PathStr(p) == Join(<<"/">>, p)

\* Path.with_suffix(".py") of a path whose last component has no suffix
WithSuffixPy(p) ==
    [p EXCEPT ![Len(p)] = p[Len(p)] \o <<".", "p", "y">>]

\* Path.parent.parts
ParentParts(p) == SubSeq(p, 1, Len(p) - 1)

----------------------------------------------------------------------------
(* The source tree *)

s_m    == <<"m">>
s_b    == <<"b">>
s_pkg  == <<"p", "k", "g">>
s_init == <<"_", "_", "i", "n", "i", "t", "_", "_", ".", "p", "y">>

P_m       == << <<"m", ".", "p", "y">> >>
P_m_init  == << s_m, s_init >>
P_pkg     == << s_pkg, s_init >>
P_a       == << s_pkg, <<"a", ".", "p", "y">> >>
P_b       == << s_pkg, <<"b", ".", "p", "y">> >>

\* every *.py file under the tree root
Tree == {P_m, P_m_init, P_pkg, P_a, P_b}


\* outcome of read_text + ast.parse on a file
ReadOK     == "ok"
ReadSyntax == "SyntaxError"
ReadDecode == "UnicodeDecodeError"

----------------------------------------------------------------------------
(* ast nodes, in the order ast.walk yields them *)

Name(id)        == [type |-> "Name", id |-> id]
Attribute(attr) == [type |-> "Attribute", attr |-> attr]
OtherExpr       == [type |-> "Subscript"]

Import(names)                == [type |-> "Import", names |-> names]
ImportFrom(module, names, level) ==
    [type |-> "ImportFrom", module |-> module, names |-> names, level |-> level]
ClassDef(name, bases)        == [type |-> "ClassDef", name |-> name, bases |-> bases]
Call(func)                   == [type |-> "Call", func |-> func]
OtherNode                    == [type |-> "FunctionDef"]

----------------------------------------------------------------------------
(* ast_parser.py *)

\* find_python_files: sorted(repo_root.rglob("*.py"))
RECURSIVE SortPaths(_)
SortPaths(S) ==
    IF S = {} THEN <<>>
    ELSE LET least == CHOOSE p \in S : \A q \in S \ {p} : PathLess(p, q)
         IN  <<least>> \o SortPaths(S \ {least})

find_python_files(tree) == SortPaths(tree)

\* resolve_import_to_path trying the package __init__.py first
resolve_import_to_path_InitFirst(module, tree) ==
    LET parts          == Split(module, ".")
        candidate      == WithSuffixPy(parts)
        candidate_init == Append(parts, s_init)
    IN  IF candidate_init \in tree THEN PathStr(candidate_init)
        ELSE IF candidate \in tree THEN PathStr(candidate)
        ELSE None

\* resolve_import_to_path(module, current_file, repo_root)
resolve_import_to_path(module, tree) ==
    LET parts          == Split(module, ".")
        candidate      == WithSuffixPy(parts)
        candidate_init == Append(parts, s_init)
    IN  IF candidate \in tree THEN PathStr(candidate)
        ELSE IF candidate_init \in tree THEN PathStr(candidate_init)
        ELSE None

ImportsEdge(source, target) ==
    [source |-> source, target |-> target, relation |-> "IMPORTS"]

\* AppendImport without the `target != source` test
AppendImport_KeepSelf(edges, source, target) ==
    IF Truthy(target)
    THEN Append(edges, ImportsEdge(source, target))
    ELSE edges

\* the body shared by the Import and ImportFrom branches:
\* `if target and target != source: edges.append(...)`
AppendImport(edges, source, target) ==
    IF Truthy(target) /\ target # source
    THEN Append(edges, ImportsEdge(source, target))
    ELSE edges

RECURSIVE ImportNames(_, _, _, _)
\* `for alias in node.names` of an ast.Import
ImportNames(names, edges, source, tree) ==
    IF names = <<>> THEN edges
    ELSE ImportNames(Tail(names),
                     AppendImport(edges, source,
                                  resolve_import_to_path(Head(names), tree)),
                     source, tree)

RECURSIVE PopLevels(_, _)
\* `for _ in range(level - 1): if pkg_parts: pkg_parts.pop()`
PopLevels(pkg_parts, n) ==
    IF n <= 0 THEN pkg_parts
    ELSE IF pkg_parts # <<>>
         THEN PopLevels(SubSeq(pkg_parts, 1, Len(pkg_parts) - 1), n - 1)
         ELSE PopLevels(pkg_parts, n - 1)

\* the dotted name an ast.ImportFrom with a module is resolved under
ModuleFull(node, path) ==
    IF node.level > 0
    THEN LET pkg_parts == PopLevels(ParentParts(path), node.level - 1)
         IN  IF pkg_parts # <<>>
             THEN Join(<<".">>, Append(pkg_parts, node.module))
             ELSE node.module
    ELSE node.module

\* the ast.ImportFrom branch
ImportFromNode(node, edges, path, source, tree) ==
    IF Truthy(node.module)
    THEN AppendImport(edges, source,
                      resolve_import_to_path(ModuleFull(node, path), tree))
    ELSE edges

\* base.id of an ast.Name, base.attr of an ast.Attribute, else None
ExprName(e) ==
    IF e.type = "Name" THEN e.id
    ELSE IF e.type = "Attribute" THEN e.attr
    ELSE None

\* `for edge in edges: if IMPORTS and same source: append(...); break`
FirstImport(edges, source) ==
    LET hits == {i \in 1..Len(edges) :
                    edges[i].relation = "IMPORTS" /\ edges[i].source = source}
    IN  IF hits = {} THEN 0
        ELSE CHOOSE i \in hits : \A j \in hits : i <= j

\* AppendDerived reading the import edge's source where its target is meant
AppendDerived_WrongKey(edges, source, relation, meta) ==
    LET i == FirstImport(edges, source)
    IN  IF i = 0 THEN edges
        ELSE Append(edges, [source |-> source, target |-> edges[i].source,
                            relation |-> relation, meta |-> meta])

AppendDerived(edges, source, relation, meta) ==
    LET i == FirstImport(edges, source)
    IN  IF i = 0 THEN edges
        ELSE Append(edges, [source |-> source, target |-> edges[i].target,
                            relation |-> relation, meta |-> meta])

s_inherits == <<" ", "i", "n", "h", "e", "r", "i", "t", "s", " ">>
s_calls    == <<"c", "a", "l", "l", "s", " ">>
s_parens   == <<"(", ")">>

RECURSIVE ClassBases(_, _, _, _)
\* `for base in node.bases` of an ast.ClassDef
ClassBases(bases, name, edges, source) ==
    IF bases = <<>> THEN edges
    ELSE LET base_name == ExprName(Head(bases))
             next == IF Truthy(base_name)
                     THEN AppendDerived(edges, source, "INHERITS",
                                        name \o s_inherits \o base_name)
                     ELSE edges
         IN  ClassBases(Tail(bases), name, next, source)

\* the ast.Call branch without the test of the first character
CallNode_AnyName(node, edges, source) ==
    LET called_name == ExprName(node.func)
    IN  IF Truthy(called_name)
        THEN AppendDerived(edges, source, "INSTANTIATES",
                           s_calls \o called_name \o s_parens)
        ELSE edges

\* the ast.Call branch
CallNode(node, edges, source) ==
    LET called_name == ExprName(node.func)
    IN  IF Truthy(called_name) /\ IsUpper(called_name[1])
        THEN AppendDerived(edges, source, "INSTANTIATES",
                           s_calls \o called_name \o s_parens)
        ELSE edges

\* one iteration of `for node in ast.walk(tree)`
VisitNode(node, edges, path, source, tree) ==
    IF node.type = "Import"
    THEN ImportNames(node.names, edges, source, tree)
    ELSE IF node.type = "ImportFrom"
    THEN ImportFromNode(node, edges, path, source, tree)
    ELSE IF node.type = "ClassDef"
    THEN ClassBases(node.bases, node.name, edges, source)
    ELSE IF node.type = "Call"
    THEN CallNode(node, edges, source)
    ELSE edges

RECURSIVE WalkNodes(_, _, _, _, _)
WalkNodes(walk, edges, path, source, tree) ==
    IF walk = <<>> THEN edges
    ELSE WalkNodes(Tail(walk), VisitNode(Head(walk), edges, path, source, tree),
                   path, source, tree)

EdgeKey(e) == <<e.source, e.target, e.relation>>

RECURSIVE Deduplicate_KeepLast(_, _, _)
\* the loop letting a later edge of a seen key take the place of the first
Deduplicate_KeepLast(edges, seen, unique_edges) ==
    IF edges = <<>> THEN unique_edges
    ELSE LET key == <<Head(edges).source, Head(edges).target, Head(edges).relation>>
         IN  IF key \notin seen
             THEN Deduplicate_KeepLast(Tail(edges), seen \cup {key},
                                       Append(unique_edges, Head(edges)))
             ELSE Deduplicate_KeepLast(
                      Tail(edges), seen,
                      [j \in 1..Len(unique_edges) |->
                          IF <<unique_edges[j].source, unique_edges[j].target,
                               unique_edges[j].relation>> = key
                          THEN Head(edges) ELSE unique_edges[j]])

\* extract_edges returning `edges` where `unique_edges` is meant
Deduplicate_Skipped(edges, seen, unique_edges) == edges

RECURSIVE Deduplicate(_, _, _)
\* the `seen` / `unique_edges` loop
Deduplicate(edges, seen, unique_edges) ==
    IF edges = <<>> THEN unique_edges
    ELSE LET key == EdgeKey(Head(edges))
         IN  IF key \notin seen
             THEN Deduplicate(Tail(edges), seen \cup {key},
                              Append(unique_edges, Head(edges)))
             ELSE Deduplicate(Tail(edges), seen, unique_edges)

\* the edges list as it stands before deduplication
RawEdges(path, files) ==
    WalkNodes(files[path].walk, <<>>, path, PathStr(path), DOMAIN files)

\* extract_edges(file_path, repo_root) over the tree `files`
extract_edges(path, files) ==
    IF files[path].read # ReadOK THEN <<>>
    ELSE Deduplicate(RawEdges(path, files), {}, <<>>)

RECURSIVE ExtendAll_Abort(_, _, _)
\* parse_repo giving up at the first file that cannot be parsed
ExtendAll_Abort(paths, all_edges, files) ==
    IF paths = <<>> \/ files[Head(paths)].read # ReadOK THEN all_edges
    ELSE ExtendAll_Abort(Tail(paths),
                         all_edges \o extract_edges(Head(paths), files), files)

RECURSIVE ExtendAll(_, _, _)
\* `for f in files: all_edges.extend(extract_edges(f, repo_root))`
ExtendAll(paths, all_edges, files) ==
    IF paths = <<>> THEN all_edges
    ELSE ExtendAll(Tail(paths), all_edges \o extract_edges(Head(paths), files),
                   files)

\* parse_repo(repo_root)
parse_repo(files) == ExtendAll(find_python_files(DOMAIN files), <<>>, files)

----------------------------------------------------------------------------
(* Source trees the extractor is run on *)

s_os   == <<"o", "s">>
s_Bar  == <<"B", "a", "r">>
s_Foo  == <<"F", "o", "o">>
s_Loc  == <<"L", "o", "c">>
s_Sub  == <<"S", "u", "b">>
s_h    == <<"h">>
s__Make == <<"_", "M", "a", "k", "e">>
s_pkg_a == <<"p", "k", "g", ".", "a">>
s_pkg_b == <<"p", "k", "g", ".", "b">>

\* statements and expressions drawn for the file under extraction
NodeSet ==
    { Import(<<s_os, s_m>>),                  \* import os, m
      Import(<<s_pkg_a>>),                    \* import pkg.a
      ImportFrom(s_b, <<s_Bar>>, 1),          \* from .b import Bar
      ImportFrom(None, <<s_b>>, 1),           \* from . import b
      ImportFrom(s_m, <<s_Bar>>, 3),          \* from ...m import Bar
      ClassDef(s_Foo, <<OtherExpr, Name(s_Bar)>>),  \* class Foo(G[T], Bar)
      ClassDef(s_Sub, <<Name(s_Loc)>>),       \* class Sub(Loc)
      Call(Name(s_Bar)),                      \* Bar()
      Call(Attribute(s_Foo)),                 \* x.Foo()
      Call(Name(s_h)),                        \* h()
      Call(Name(s__Make)) }                   \* _Make()

RECURSIVE SeqsUpTo(_, _)
SeqsUpTo(S, n) ==
    IF n = 0 THEN {<<>>}
    ELSE LET shorter == SeqsUpTo(S, n - 1)
         IN  shorter \cup {Append(w, x) : w \in {v \in shorter : Len(v) = n - 1},
                                          x \in S}

Parsed(walk) == [read |-> ReadOK, walk |-> walk]
Unparsed(why) == [read |-> why, walk |-> <<>>]

\* contents drawn for the files of a whole-tree run
BatchContents(p) ==
    {Unparsed(ReadSyntax), Unparsed(ReadDecode)} \cup
    IF p = P_a
    THEN {Parsed(<<ImportFrom(s_b, <<s_Bar>>, 1), ClassDef(s_Foo, <<Name(s_Bar)>>),
                   ImportFrom(s_b, <<s_Foo>>, 1), OtherNode>>)}
    ELSE IF p = P_b
    THEN {Parsed(<<Import(<<s_m>>), Call(Name(s_Bar)), Call(OtherExpr),
                   ImportFrom(s_pkg, <<s_b>>, 0)>>)}
    ELSE IF p = P_m
    THEN {Parsed(<<ImportFrom(s_pkg_b, <<s_Bar>>, 0), Import(<<s_pkg_a>>)>>),
          Parsed(<<>>)}
    ELSE {Parsed(<<>>)}

\* one file of the tree holds any walk of up to MaxNodes nodes
InitOneFile ==
    \E walk \in SeqsUpTo(NodeSet, MaxNodes) :
        fs = [p \in Tree |-> IF p = P_a THEN Parsed(walk) ELSE Parsed(<<>>)]

\* every file of the tree is parseable or not
InitBatch ==
    \E contents \in [Tree -> UNION {BatchContents(p) : p \in Tree}] :
        /\ \A p \in Tree : contents[p] \in BatchContents(p)
        /\ fs = contents

\* a database nothing was ever loaded into
GraphIdle ==
    /\ g_nodes = <<>>
    /\ g_rels = <<>>
    /\ edges_json = <<>>
    /\ loader = "none"
    /\ loads = 0
    /\ reloaded = FALSE
    /\ deleted = 0

\* no index file, and no query made
ServiceIdle ==
    /\ chunks = <<>>
    /\ index = <<>>
    /\ call = [op |-> "none"]
    /\ query_tokens = <<>>
    /\ ret = None

Readers == 1..MaxReaders

\* no bm25_index.pkl on disk, no build running, no reader loading
StoreIdle ==
    /\ pkl = [exists |-> FALSE, build |-> 0, written |-> 0]
    /\ writer = [pc |-> "idle", build |-> 0]
    /\ reader = [r \in Readers |-> [pc |-> "idle", observed |-> [kind |-> "none"]]]

\* run_all not started: nothing pending, counted or marked
HarnessIdle ==
    /\ trials = <<>>
    /\ trial = 0
    /\ attempt = 0
    /\ last_error = None
    /\ completed_count = 0
    /\ failed_trials = <<>>
    /\ failed_markers = {}
    /\ stmt = "not started"

Init ==
    /\ HarnessIdle
    /\ StoreIdle
    /\ InitOneFile \/ InitBatch
    /\ pc = "start"
    /\ file_path = None
    /\ out_edges = <<>>
    /\ GraphIdle
    /\ ServiceIdle

\* a call of extract_edges(path, repo_root)
ExtractEdgesCall ==
    \E path \in Tree :
        /\ file_path' = path
        /\ out_edges' = extract_edges(path, fs)
        /\ pc' = "extract_edges"
        /\ UNCHANGED <<fs, graph_vars, service_vars, store_vars, harness_vars>>

\* a call of parse_repo(repo_root)
ParseRepoCall ==
    /\ out_edges' = parse_repo(fs)
    /\ pc' = "parse_repo"
    /\ UNCHANGED <<fs, file_path, graph_vars, service_vars, store_vars, harness_vars>>

Next == ExtractEdgesCall \/ ParseRepoCall

Spec == Init /\ [][Next]_vars

----------------------------------------------------------------------------
(* Properties of the extractor *)

Returned == pc \in {"extract_edges", "parse_repo"}

Derived(e) == e.relation \in {"INHERITS", "INSTANTIATES"}

\* the walk of the file extract_edges was last called on
WalkOf(path) == fs[path].walk

IsImportNode(n) == n.type \in {"Import", "ImportFrom"}

\* a relative import with more upward steps than enclosing package directories
ClimbsAboveRoot(n, path) ==
    n.type = "ImportFrom" /\ n.level - 1 > Len(ParentParts(path))

\* the dotted names of the modules an import statement refers to, after a
\* relative reference is rebased on the enclosing-package chain
ReferencedModules(n, path) ==
    IF n.type = "Import" THEN {n.names[i] : i \in 1..Len(n.names)}
    ELSE IF n.level = 0 THEN {n.module}
    ELSE IF ClimbsAboveRoot(n, path) THEN {}
    ELSE LET pkg == SubSeq(path, 1, Len(path) - n.level)
         IN  IF n.module # None
             THEN {Join(<<".">>, Append(pkg, n.module))}
             ELSE {Join(<<".">>, Append(pkg, n.names[i])) : i \in 1..Len(n.names)}

\* the names an import statement binds in the importing file
ImportedSymbols(n) == {n.names[i] : i \in 1..Len(n.names)}

\* the files of the tree an import statement of `path` refers to
ImportTargets(n, path) ==
    {t \in {resolve_import_to_path(r, DOMAIN fs) : r \in ReferencedModules(n, path)} :
        Truthy(t)}

\* C1: no list returned by extract_edges or parse_repo holds two entries
\* with the same (source, target, relation) triple.
C1_NoDuplicateTriples ==
    Returned =>
        \A i, j \in 1..Len(out_edges) :
            i # j => EdgeKey(out_edges[i]) # EdgeKey(out_edges[j])

\* a whole-tree run over files of which one detected the same triple twice
C1_Witness ==
    /\ pc = "parse_repo"
    /\ \E p \in Tree : /\ fs[p].read = ReadOK
                       /\ Len(RawEdges(p, fs)) > Len(extract_edges(p, fs))
    /\ \E i, j \in 1..Len(out_edges) : out_edges[i].source # out_edges[j].source

\* C2: every INHERITS or INSTANTIATES edge of a list returned by
\* extract_edges comes after an IMPORTS edge of that list with the same
\* source and the same target.
C2_DerivedFollowsImport ==
    pc = "extract_edges" =>
        \A j \in 1..Len(out_edges) :
            Derived(out_edges[j]) =>
                \E i \in 1..(j - 1) :
                    /\ out_edges[i].relation = "IMPORTS"
                    /\ out_edges[i].source = out_edges[j].source
                    /\ out_edges[i].target = out_edges[j].target

\* extract_edges returned an INHERITS and an INSTANTIATES edge
C2_Witness ==
    /\ pc = "extract_edges"
    /\ \E j \in 1..Len(out_edges) : out_edges[j].relation = "INHERITS"
    /\ \E j \in 1..Len(out_edges) : out_edges[j].relation = "INSTANTIATES"

\* the class bases (INHERITS) or callee names (INSTANTIATES) of a walk
UsedNames(walk, relation) ==
    IF relation = "INHERITS"
    THEN UNION {{ExprName(walk[k].bases[b]) : b \in 1..Len(walk[k].bases)} :
                    k \in {k \in 1..Len(walk) : walk[k].type = "ClassDef"}}
    ELSE {ExprName(walk[k].func) :
                    k \in {k \in 1..Len(walk) : walk[k].type = "Call"}}

\* the targets of the IMPORTS edges extract_edges appends for one import
\* statement of `path`
EmittedTargets(n, path) ==
    LET appended == VisitNode(n, <<>>, path, PathStr(path), DOMAIN fs)
    IN  {appended[i].target : i \in 1..Len(appended)}

\* C3: an INHERITS (INSTANTIATES) edge is emitted only when a base (an
\* uppercase callee) name of the file is a symbol bound by an import of the
\* edge's target file.
C3_DerivedOnlyForImportedSymbol ==
    pc = "extract_edges" =>
        \A j \in 1..Len(out_edges) :
            Derived(out_edges[j]) =>
                \E k \in 1..Len(WalkOf(file_path)) :
                    LET n == WalkOf(file_path)[k]
                    IN  /\ IsImportNode(n)
                        /\ out_edges[j].target \in EmittedTargets(n, file_path)
                        /\ ImportedSymbols(n) \cap
                             UsedNames(WalkOf(file_path), out_edges[j].relation) # {}

\* C4: every import statement whose referenced module is a file of the tree
\* other than the importing file yields an IMPORTS edge to that file.
C4_EveryImportCaptured ==
    (pc = "extract_edges" /\ fs[file_path].read = ReadOK) =>
        \A k \in 1..Len(WalkOf(file_path)) :
            IsImportNode(WalkOf(file_path)[k]) =>
                \A t \in ImportTargets(WalkOf(file_path)[k], file_path) :
                    t # PathStr(file_path) =>
                        \E j \in 1..Len(out_edges) :
                            out_edges[j] = ImportsEdge(PathStr(file_path), t)

\* C5: a file whose only import statements are relative imports climbing
\* above the tree root gets no IMPORTS edge.
C5_ClimbAboveRootIsExternal ==
    (/\ pc = "extract_edges"
     /\ fs[file_path].read = ReadOK
     /\ \A k \in 1..Len(WalkOf(file_path)) :
            IsImportNode(WalkOf(file_path)[k]) =>
                ClimbsAboveRoot(WalkOf(file_path)[k], file_path))
    => \A j \in 1..Len(out_edges) : out_edges[j].relation # "IMPORTS"

\* C6: no returned edge has its source equal to its target.
C6_NoSelfEdge ==
    Returned =>
        \A j \in 1..Len(out_edges) : out_edges[j].source # out_edges[j].target

\* a file that imports itself and has a class with a named base and an
\* uppercase call
C6_Witness ==
    /\ pc = "extract_edges"
    /\ fs[file_path].read = ReadOK
    /\ \E k \in 1..Len(WalkOf(file_path)) :
          /\ IsImportNode(WalkOf(file_path)[k])
          /\ PathStr(file_path) \in ImportTargets(WalkOf(file_path)[k], file_path)
    /\ \E k \in 1..Len(WalkOf(file_path)) :
          WalkOf(file_path)[k].type \in {"ClassDef", "Call"}
    /\ UsedNames(WalkOf(file_path), "INHERITS")
         \cup UsedNames(WalkOf(file_path), "INSTANTIATES") # {None}

\* the tree with every unparseable file replaced by an empty module
Healed(files) ==
    [p \in DOMAIN files |->
        IF files[p].read = ReadOK THEN files[p] ELSE Parsed(<<>>)]

\* the files of the tree in ascending path order
TreeInOrder == <<P_m_init, P_m, P_pkg, P_a, P_b>>

RECURSIVE ConcatParseable(_, _)
ConcatParseable(paths, files) ==
    IF paths = <<>> THEN <<>>
    ELSE (IF files[Head(paths)].read = ReadOK
          THEN extract_edges(Head(paths), Healed(files))
          ELSE <<>>) \o ConcatParseable(Tail(paths), files)

\* C7: parse_repo returns the concatenation, in sorted file order, of the
\* edge lists of the parseable files, each as it is when the unparseable
\* files are empty modules.
C7_UnparseableFilesSkipped ==
    pc = "parse_repo" => out_edges = ConcatParseable(TreeInOrder, fs)

\* a run over a tree with an unparseable file between two files with edges
C7_Witness ==
    /\ pc = "parse_repo"
    /\ fs[P_m].read = ReadOK /\ extract_edges(P_m, fs) # <<>>
    /\ fs[P_a].read = ReadSyntax
    /\ fs[P_pkg].read = ReadDecode
    /\ fs[P_b].read = ReadOK /\ extract_edges(P_b, fs) # <<>>

----------------------------------------------------------------------------
(* build_graph.py: the Neo4j graph and its loaders *)

\* a graph is [nodes |-> bag of File paths, rels |-> bag of typed relationships]
EmptyGraph == [nodes |-> <<>>, rels |-> <<>>]

\* MATCH (n) DETACH DELETE n
clear_graph(g) == EmptyGraph

\* MERGE (f:File {path: path})
MergeNode(nodes, path) ==
    IF path \in DOMAIN nodes THEN nodes ELSE nodes @@ (path :> 1)

\* a relationship created whether or not one of its kind exists
MergeRelationship_Create(rels, source, type, target) ==
    LET key == <<source, target, type>>
    IN  IF key \in DOMAIN rels
        THEN [rels EXCEPT ![key] = @ + 1]
        ELSE rels @@ (key :> 1)

\* CALL apoc.merge.relationship(a, type, {}, {}, b), MERGE (a)-[:TYPE]->(b)
MergeRelationship(rels, source, type, target) ==
    LET key == <<source, target, type>>
    IN  IF key \in DOMAIN rels THEN rels ELSE rels @@ (key :> 1)

\* one row of `UNWIND $edges AS edge MERGE (a) MERGE (b) <merge type a->b>`
MergeRow(g, edge, type) ==
    [nodes |-> MergeNode(MergeNode(g.nodes, edge.source), edge.target),
     rels  |-> MergeRelationship(g.rels, edge.source, type, edge.target)]

\* e, with the graph v computed first: the rows of a statement are merged
\* in order, each on the graph the rows before it left
Then(v, e) == IF v = v THEN e ELSE e

RECURSIVE RunApocStatement(_, _)
\* session.run of the statement of load_edges on one batch: the rows of the
\* first half of the batch, then the rows of the second half
RunApocStatement(g, batch) ==
    IF batch = <<>> THEN g
    ELSE IF Len(batch) = 1 THEN MergeRow(g, batch[1], batch[1].relation)
    ELSE LET half == Len(batch) \div 2
             g1 == RunApocStatement(g, SubSeq(batch, 1, half))
         IN  Then(g1, RunApocStatement(g1, SubSeq(batch, half + 1, Len(batch))))

batch_size == 100

Min(a, b) == IF a < b THEN a ELSE b

RECURSIVE LoadBatches(_, _, _)
\* `for i in range(0, len(edges), batch_size)`
LoadBatches(g, edges, i) ==
    IF i >= Len(edges) THEN g
    ELSE LoadBatches(
            RunApocStatement(g, SubSeq(edges, i + 1, Min(i + batch_size, Len(edges)))),
            edges, i + batch_size)

\* load_edges stopping after its first batch
load_edges_FirstBatch(g, edges) ==
    RunApocStatement(g, SubSeq(edges, 1, Min(batch_size, Len(edges))))

\* load_edges(session, edges)
load_edges(g, edges) == LoadBatches(g, edges, 0)

\* the INHERITS query written with the relationship type of the IMPORTS query
QueryType_Pasted(relation) ==
    IF relation = "IMPORTS" THEN "IMPORTS"
    ELSE IF relation = "INHERITS" THEN "IMPORTS"
    ELSE "INSTANTIATES"

\* the relationship type in the query load_edges_no_apoc picks for `relation`
QueryType(relation) ==
    IF relation = "IMPORTS" THEN "IMPORTS"
    ELSE IF relation = "INHERITS" THEN "INHERITS"
    ELSE "INSTANTIATES"

RECURSIVE RunTypedStatement(_, _, _)
\* session.run of one of the three statements of load_edges_no_apoc: the
\* rows of the first half of the batch, then the rows of the second half
RunTypedStatement(g, batch, type) ==
    IF batch = <<>> THEN g
    ELSE IF Len(batch) = 1 THEN MergeRow(g, batch[1], type)
    ELSE LET half == Len(batch) \div 2
             g1 == RunTypedStatement(g, SubSeq(batch, 1, half), type)
         IN  Then(g1, RunTypedStatement(g1, SubSeq(batch, half + 1, Len(batch)),
                                        type))

\* [e for e in edges if e["relation"] == relation]
FilterRelation(edges, relation) ==
    LET Keep(e) == e.relation = relation
    IN  SelectSeq(edges, Keep)

RECURSIVE LoadRelations(_, _, _)
\* `for relation in ["IMPORTS", "INHERITS", "INSTANTIATES"]`
LoadRelations(g, edges, relations) ==
    IF relations = <<>> THEN g
    ELSE LET batch == FilterRelation(edges, Head(relations))
         IN  LoadRelations(
                IF batch = <<>> THEN g
                ELSE RunTypedStatement(g, batch, QueryType(Head(relations))),
                edges, Tail(relations))

\* load_edges_no_apoc(session, edges)
load_edges_no_apoc(g, edges) ==
    LoadRelations(g, edges, <<"IMPORTS", "INHERITS", "INSTANTIATES">>)

----------------------------------------------------------------------------
(* Runs of build_graph.py *)

f_a == PathStr(P_a)
f_b == PathStr(P_b)
f_m == PathStr(P_m)

\* edges as ast_parser.py writes them to edges.json
EdgeSet ==
    { ImportsEdge(f_a, f_b),
      [source |-> f_a, target |-> f_b, relation |-> "INHERITS",
       meta |-> s_Foo \o s_inherits \o s_Bar],
      [source |-> f_b, target |-> f_m, relation |-> "INSTANTIATES",
       meta |-> s_calls \o s_Bar \o s_parens] }

\* a list that fills one batch with one edge and starts a second batch with
\* edges the first batch does not hold
LongList ==
    [i \in 1..(batch_size + 2) |->
        IF i <= batch_size THEN ImportsEdge(f_a, f_b)
        ELSE IF i = batch_size + 1
        THEN [source |-> f_a, target |-> f_b, relation |-> "INHERITS",
              meta |-> s_Foo \o s_inherits \o s_Bar]
        ELSE [source |-> f_b, target |-> f_m, relation |-> "INSTANTIATES",
              meta |-> s_calls \o s_Bar \o s_parens]]

EdgeLists == SeqsUpTo(EdgeSet, MaxEdges) \cup {LongList}

Graph == [nodes |-> g_nodes, rels |-> g_rels]

BagSize(bag) ==
    LET RECURSIVE Sum(_)
        Sum(K) == IF K = {} THEN 0
                  ELSE LET k == CHOOSE k \in K : TRUE
                       IN  bag[k] + Sum(K \ {k})
    IN  Sum(DOMAIN bag)

ExtractorIdle ==
    /\ fs = [p \in Tree |-> Parsed(<<>>)]
    /\ pc = "start"
    /\ file_path = None
    /\ out_edges = <<>>

InitGraph == ExtractorIdle /\ GraphIdle /\ ServiceIdle /\ StoreIdle /\ HarnessIdle

\* main --clear: clear_graph(session)
ClearGraph ==
    /\ g_nodes' = clear_graph(Graph).nodes
    /\ g_rels' = clear_graph(Graph).rels
    /\ deleted' = BagSize(g_nodes)
    /\ loader' = "clear_graph"
    /\ loads' = 0
    /\ reloaded' = FALSE
    /\ UNCHANGED <<edges_json, extractor_vars, service_vars, store_vars, harness_vars>>

\* the bookkeeping of a loader run `run` on the list `edges`
LoaderRan(run, edges) ==
    /\ loads < MaxLoads
    /\ loads' = loads + 1
    /\ reloaded' = (/\ loads >= 1
                    /\ loads = 1 \/ reloaded
                    /\ loader = run
                    /\ edges_json = edges)
    /\ loader' = run
    /\ edges_json' = edges
    /\ UNCHANGED <<deleted, extractor_vars, service_vars, store_vars, harness_vars>>

\* main with APOC installed: load_edges(session, edges)
LoadEdges ==
    \E edges \in EdgeLists :
        /\ g_nodes' = load_edges(Graph, edges).nodes
        /\ g_rels' = load_edges(Graph, edges).rels
        /\ LoaderRan("load_edges", edges)

\* main without APOC: the first statement of load_edges raises before it
\* writes, and main calls load_edges_no_apoc(session, edges)
LoadEdgesNoApoc ==
    \E edges \in EdgeLists \ {<<>>} :
        /\ g_nodes' = load_edges_no_apoc(Graph, edges).nodes
        /\ g_rels' = load_edges_no_apoc(Graph, edges).rels
        /\ LoaderRan("load_edges_no_apoc", edges)

NextGraph == ClearGraph \/ LoadEdges \/ LoadEdgesNoApoc

SpecGraph == InitGraph /\ [][NextGraph]_vars

----------------------------------------------------------------------------
(* Properties of the loaders *)

LoadWith(run, g, edges) ==
    IF run = "load_edges" THEN load_edges(g, edges)
    ELSE load_edges_no_apoc(g, edges)

\* C8: when every loader run since the graph was empty was the same loader
\* on the same list, the graph is the one a single run leaves: the same File
\* nodes and the same relationships, in the same numbers.
C8_ReloadIdempotent ==
    (loads >= 2 /\ reloaded) =>
        LET once == LoadWith(loader, EmptyGraph, edges_json)
        IN  /\ Graph = once
            /\ BagSize(g_nodes) = BagSize(once.nodes)
            /\ \A r \in {"IMPORTS", "INHERITS", "INSTANTIATES"} :
                 LET OfType(g) == {k \in DOMAIN g : k[3] = r}
                     Count(g) == BagSize([k \in OfType(g) |-> g[k]])
                 IN  Count(g_rels) = Count(once.rels)

\* the fallback loader has loaded the two-batch list twice into an empty graph
C8_Witness ==
    /\ loads = 2
    /\ reloaded
    /\ loader = "load_edges_no_apoc"
    /\ edges_json = LongList

\* C9: whichever loader runs, on whatever graph and list, the graph it
\* leaves is the graph load_edges leaves and the graph load_edges_no_apoc
\* leaves.
C9_FallbackEquivalent ==
    [][loads' = loads + 1 =>
          /\ [nodes |-> g_nodes', rels |-> g_rels'] = load_edges(Graph, edges_json')
          /\ [nodes |-> g_nodes', rels |-> g_rels']
               = load_edges_no_apoc(Graph, edges_json')]_vars

\* the fallback loader has run on a graph that held other edges, with a list
\* of several relation types, one of them new to the graph
C9_Witness ==
    /\ loads = 2
    /\ ~reloaded
    /\ loader = "load_edges_no_apoc"
    /\ edges_json = LongList
    /\ BagSize(g_rels) = 3
    /\ BagSize(g_nodes) = 3

\* C10: clear_graph leaves no node and no relationship, and the first
\* load_edges run after it leaves one File node per distinct endpoint of the
\* list and one relationship per distinct (source, target, relation) triple.
C10_ClearThenLoadExact ==
    /\ loader = "clear_graph" => Graph = EmptyGraph
    /\ (loads = 1 /\ loader = "load_edges") =>
          LET E == {edges_json[i] : i \in 1..Len(edges_json)}
          IN  /\ DOMAIN g_nodes = {e.source : e \in E} \cup {e.target : e \in E}
              /\ \A p \in DOMAIN g_nodes : g_nodes[p] = 1
              /\ DOMAIN g_rels = {EdgeKey(e) : e \in E}
              /\ \A k \in DOMAIN g_rels : g_rels[k] = 1

\* clear_graph emptied a graph with nodes, then load_edges loaded a list of
\* more than one batch
C10_Witness ==
    /\ loads = 1
    /\ loader = "load_edges"
    /\ deleted > 0
    /\ Len(edges_json) > batch_size
    /\ BagSize(g_rels) = 3

----------------------------------------------------------------------------
(* codecompass/graph.py: the graph queries *)

\* rank of the labels the queries order by, in the order of their code
\* points: upper case sorts before lower case
LabelRank(s) ==
    CASE s = "IMPORTS" -> 1 [] s = "INHERITS" -> 2 [] s = "INSTANTIATES" -> 3
      [] s = "in" -> 4 [] s = "incoming" -> 5
      [] s = "out" -> 6 [] s = "outgoing" -> 7

RECURSIVE Repeat(_, _)
\* [x] * n
Repeat(x, n) == IF n = 0 THEN <<>> ELSE <<x>> \o Repeat(x, n - 1)

RECURSIVE MatchKeys(_, _, _, _, _)
\* one row per relationship of `keys`: the other end, the type, and the
\* label of `CASE WHEN startNode(r) = f THEN <out_label> ELSE <in_label> END`
MatchKeys(rels, keys, path, out_label, in_label) ==
    IF keys = {} THEN <<>>
    ELSE LET k == CHOOSE k \in keys : TRUE
             row == IF k[1] = path
                    THEN [neighbor |-> k[2], relation |-> k[3],
                          direction |-> out_label]
                    ELSE [neighbor |-> k[1], relation |-> k[3],
                          direction |-> in_label]
         IN  Repeat(row, rels[k])
               \o MatchKeys(rels, keys \ {k}, path, out_label, in_label)

\* the MATCH written with a directed pattern, (f)-[r]->(neighbor)
MatchFile_Directed(g, path, out_label, in_label) ==
    MatchKeys(g.rels, {k \in DOMAIN g.rels : k[1] = path},
              path, out_label, in_label)

\* `MATCH (f:File {path: $path})-[r]-(neighbor:File) RETURN ...` before the
\* ORDER BY: every relationship with an end at f, in the order the database
\* happens to find them
MatchFile(g, path, out_label, in_label) ==
    MatchKeys(g.rels, {k \in DOMAIN g.rels : k[1] = path \/ k[2] = path},
              path, out_label, in_label)

\* the elements of a list
Range(s) == {s[i] : i \in 1..Len(s)}

\* ORDER BY, sorted(): the rows in the order in which no row comes before a
\* row that is less than it, less[a, b] telling whether a is less than b;
\* rows neither of which is less keep their order
OrderBy(rows, less) ==
    LET RECURSIVE Insert(_, _)
        Insert(sorted, r) ==
            IF sorted = <<>> THEN <<r>>
            ELSE IF less[r, Head(sorted)] THEN <<r>> \o sorted
            ELSE <<Head(sorted)>> \o Insert(Tail(sorted), r)
        RECURSIVE Sort(_)
        Sort(s) ==
            IF s = <<>> THEN <<>>
            ELSE Insert(Sort(SubSeq(s, 1, Len(s) - 1)), s[Len(s)])
    IN  Sort(rows)

\* the ORDER BY written `relation, direction, neighbor`
RowLess_RelationFirst(a, b) ==
    IF a.relation # b.relation
    THEN LabelRank(a.relation) < LabelRank(b.relation)
    ELSE IF a.direction # b.direction
    THEN LabelRank(a.direction) < LabelRank(b.direction)
    ELSE StrLess(a.neighbor, b.neighbor)

\* `ORDER BY direction, relation, neighbor`
RowLess(a, b) ==
    IF a.direction # b.direction
    THEN LabelRank(a.direction) < LabelRank(b.direction)
    ELSE IF a.relation # b.relation
    THEN LabelRank(a.relation) < LabelRank(b.relation)
    ELSE StrLess(a.neighbor, b.neighbor)

\* neighbors returning every row whatever direction was asked for
FilterDirection_None(rows, direction) == rows

\* `if direction != "both": rows = [r for r in rows if r["direction"] == direction]`
FilterDirection(rows, direction) ==
    LET Keep(r) == r.direction = direction
    IN  IF direction # "both" THEN SelectSeq(rows, Keep) ELSE rows

\* GraphBackend.neighbors(file_path, direction)
neighbors(g, path, direction) ==
    LET rows == MatchFile(g, path, "out", "in")
    IN  FilterDirection(
            OrderBy(rows, [a \in Range(rows), b \in Range(rows) |-> RowLess(a, b)]),
            direction)

\* `MATCH (f:File) RETURN count(f)`
FileCount(g) == BagSize(g.nodes)

\* count(r) of the group type(r) = type of `MATCH ()-[r]->()`
TypeCount(g, type) ==
    BagSize([k \in {k \in DOMAIN g.rels : k[3] = type} |-> g.rels[k]])

\* the orders in which the elements of S can be listed
Perms(S) ==
    {p \in [1..Cardinality(S) -> S] : \A i, j \in 1..Cardinality(S) :
                                          p[i] = p[j] => i = j}

\* the rows of the edge query in any order of the groups
EdgeCountRows_Unordered(g) ==
    LET types == {k[3] : k \in DOMAIN g.rels}
    IN  {[i \in 1..Len(p) |-> [relation |-> p[i], count |-> TypeCount(g, p[i])]] :
            p \in Perms(types)}

\* the row lists `RETURN type(r) AS relation, count(r) AS count ORDER BY
\* count DESC` can produce: one row per type that has a relationship, in
\* descending order of count, groups of equal count in either order
EdgeCountRows(g) ==
    {rows \in EdgeCountRows_Unordered(g) :
        \A i \in 1..(Len(rows) - 1) : rows[i].count >= rows[i + 1].count}

\* the values GraphBackend.stats() can return: `edges` is a dict, which
\* keeps the rows in the order they were inserted
stats(g) ==
    {[files |-> FileCount(g), edges |-> rows] : rows \in EdgeCountRows(g)}

----------------------------------------------------------------------------
(* harness/sdk/tools.py and mcp_server/server.py: get_architectural_context *)

\* `ORDER BY relation, direction, neighbor`
ContextRowLess(a, b) ==
    IF a.relation # b.relation
    THEN LabelRank(a.relation) < LabelRank(b.relation)
    ELSE IF a.direction # b.direction
    THEN LabelRank(a.direction) < LabelRank(b.direction)
    ELSE StrLess(a.neighbor, b.neighbor)

\* session.run(...).data() of the query both tools send: the directions are
\* labelled 'outgoing' and 'incoming'
ContextRows(g, path) ==
    LET rows == MatchFile(g, path, "outgoing", "incoming")
    IN  OrderBy(rows, [a \in Range(rows), b \in Range(rows) |->
                          ContextRowLess(a, b)])

\* the text returned: the "No structural neighbors found" message, or a
\* header, one line `  <symbol> [<relation>]  <neighbor>` per row with the
\* symbol -> for an outgoing and <- for an incoming row, and the total
ContextText(rows) ==
    IF rows = <<>>
    THEN [found |-> FALSE, lines |-> <<>>, total |-> 0]
    ELSE [found |-> TRUE,
          lines |-> [i \in 1..Len(rows) |->
                        [symbol |-> IF rows[i].direction = "outgoing"
                                    THEN "->" ELSE "<-",
                         relation |-> rows[i].relation,
                         neighbor |-> rows[i].neighbor]],
          total |-> Len(rows)]

\* tools.py: get_architectural_context(file_path)
get_architectural_context(g, path) == ContextText(ContextRows(g, path))

\* server.py: get_architectural_context(file_path)
mcp_get_architectural_context(g, path) == ContextText(ContextRows(g, path))

----------------------------------------------------------------------------
(* Queries on a loaded graph *)

\* edges of a tree in which pkg/a.py and m.py use each other
QueryEdgeSet ==
    EdgeSet \cup
    { ImportsEdge(f_a, f_m),
      [source |-> f_m, target |-> f_a, relation |-> "INSTANTIATES",
       meta |-> s_calls \o s_Foo \o s_parens] }

QueryEdgeLists == SeqsUpTo(QueryEdgeSet, MaxEdges + 1)

\* the paths queries are made for: the files of the tree
QueryFiles == {PathStr(p) : p \in Tree}

Directions == {"in", "out", "both"}

\* a database one load_edges run has filled, and no query made yet
InitQuery ==
    /\ HarnessIdle
    /\ StoreIdle
    /\ ExtractorIdle
    /\ ServiceIdle
    /\ \E edges \in QueryEdgeLists :
          /\ g_nodes = load_edges(EmptyGraph, edges).nodes
          /\ g_rels = load_edges(EmptyGraph, edges).rels
          /\ edges_json = edges
    /\ loader = "load_edges"
    /\ loads = 1
    /\ reloaded = FALSE
    /\ deleted = 0

\* a query: it reads the graph and returns `result`
Queried(c, result) ==
    /\ call' = c
    /\ ret' = result
    /\ UNCHANGED <<extractor_vars, graph_vars, chunks, index, query_tokens, store_vars, harness_vars>>

\* GraphBackend.neighbors(file_path, direction)
NeighborsCall ==
    \E path \in QueryFiles, direction \in Directions :
        Queried([op |-> "neighbors", file_path |-> path, direction |-> direction],
                neighbors(Graph, path, direction))

\* the harness dispatches the tool get_architectural_context
ToolContextCall ==
    \E path \in QueryFiles :
        Queried([op |-> "tools.get_architectural_context", file_path |-> path],
                get_architectural_context(Graph, path))

\* the MCP server runs the tool get_architectural_context
McpContextCall ==
    \E path \in QueryFiles :
        Queried([op |-> "server.get_architectural_context", file_path |-> path],
                mcp_get_architectural_context(Graph, path))

\* GraphBackend.stats()
StatsCall ==
    \E result \in stats(Graph) : Queried([op |-> "stats"], result)

NextQuery == NeighborsCall \/ ToolContextCall \/ McpContextCall \/ StatsCall

SpecQuery == InitQuery /\ [][NextQuery]_vars

----------------------------------------------------------------------------
(* Properties of the graph queries *)

\* the (neighbor, relation) pairs of a list of rows
Pairs(rows) == {<<rows[i].neighbor, rows[i].relation>> : i \in 1..Len(rows)}

\* C11: for every file f, the (neighbor, relation) pairs of
\* neighbors(f, "out") together with those of neighbors(f, "in") are the
\* pairs of neighbors(f, "both"), and every row of neighbors(f, d), d one of
\* in and out, has direction d; the value a neighbors call returns is a value
\* of this kind.
C11_BothIsInAndOut ==
    /\ \A f \in QueryFiles :
          /\ Pairs(neighbors(Graph, f, "out")) \cup Pairs(neighbors(Graph, f, "in"))
               = Pairs(neighbors(Graph, f, "both"))
          /\ \A d \in {"in", "out"} :
               LET rows == neighbors(Graph, f, d)
               IN  \A i \in 1..Len(rows) : rows[i].direction = d
    /\ (call.op = "neighbors" /\ call.direction # "both") =>
          \A i \in 1..Len(ret) : ret[i].direction = call.direction

\* neighbors(f, "in") was called for a file with relationships in both
\* directions, and returned the incoming ones
C11_Witness ==
    /\ call.op = "neighbors"
    /\ call.direction = "in"
    /\ ret # <<>>
    /\ Len(neighbors(Graph, call.file_path, "both")) > Len(ret)

\* each row is followed by a row with a greater direction label, or the same
\* label and a greater relation name, or the same two and a neighbor path
\* that is not smaller
SortedRows(rows) ==
    \A i \in 1..(Len(rows) - 1) :
        LET a == rows[i]
            b == rows[i + 1]
        IN  \/ LabelRank(a.direction) < LabelRank(b.direction)
            \/ /\ a.direction = b.direction
               /\ LabelRank(a.relation) < LabelRank(b.relation)
            \/ /\ a.direction = b.direction
               /\ a.relation = b.relation
               /\ a.neighbor = b.neighbor \/ StrLess(a.neighbor, b.neighbor)

\* C13: for every file and each direction argument the rows of neighbors are
\* in ascending order of direction label, then relation name, then neighbor
\* path, and the rows of one direction are the rows of "both" with that
\* label, in the order they have there; a neighbors call returns such a list.
C13_RowsSorted ==
    /\ \A f \in QueryFiles :
          /\ \A d \in Directions : SortedRows(neighbors(Graph, f, d))
          /\ \A d \in {"in", "out"} :
               LET Labelled(r) == r.direction = d
               IN  neighbors(Graph, f, d)
                     = SelectSeq(neighbors(Graph, f, "both"), Labelled)
    /\ call.op = "neighbors" => SortedRows(ret)

\* neighbors(f, "both") returned rows of both directions, and two rows that
\* differ in the neighbor path alone
C13_Witness ==
    /\ call.op = "neighbors"
    /\ call.direction = "both"
    /\ \E i, j \in 1..Len(ret) : ret[i].direction # ret[j].direction
    /\ \E i \in 1..(Len(ret) - 1) :
          /\ ret[i].direction = ret[i + 1].direction
          /\ ret[i].relation = ret[i + 1].relation
          /\ ret[i].neighbor # ret[i + 1].neighbor

\* the entries a list of rows of neighbors shows: direction, relation and
\* neighbor of each row, in order
RowEntries(rows) ==
    [i \in 1..Len(rows) |->
        <<rows[i].direction, rows[i].relation, rows[i].neighbor>>]

\* the entries the lines of a get_architectural_context text show
LineEntries(lines) ==
    [i \in 1..Len(lines) |->
        <<IF lines[i].symbol = "->" THEN "out" ELSE "in",
          lines[i].relation, lines[i].neighbor>>]

ContextOps ==
    {"tools.get_architectural_context", "server.get_architectural_context"}

\* C14: the text get_architectural_context returns for a path, in the
\* harness and in the MCP server, lists the entries of neighbors(path,
\* "both"), in the order neighbors returns them.
C14_ContextIsNeighborsBoth ==
    call.op \in ContextOps =>
        LineEntries(ret.lines)
            = RowEntries(neighbors(Graph, call.file_path, "both"))

\* the edges the database was loaded with
LoadedEdges == {edges_json[i] : i \in 1..Len(edges_json)}

\* C15: stats() returns the number of distinct files the loaded edges name
\* and, for each relation with at least one loaded edge and for no other,
\* the number of distinct loaded (source, target) pairs of that relation,
\* listed in descending order of count; on an empty graph it returns 0 files
\* and an empty edge map.
C15_StatsExact ==
    call.op = "stats" =>
        LET Triples(r) == {EdgeKey(e) : e \in {e \in LoadedEdges : e.relation = r}}
            Listed == {ret.edges[i].relation : i \in 1..Len(ret.edges)}
        IN  /\ ret.files = Cardinality({e.source : e \in LoadedEdges}
                                        \cup {e.target : e \in LoadedEdges})
            /\ Listed = {e.relation : e \in LoadedEdges}
            /\ Cardinality(Listed) = Len(ret.edges)
            /\ \A i \in 1..Len(ret.edges) :
                 ret.edges[i].count = Cardinality(Triples(ret.edges[i].relation))
            /\ \A i \in 1..(Len(ret.edges) - 1) :
                 ret.edges[i].count >= ret.edges[i + 1].count
            /\ Graph = EmptyGraph => ret = [files |-> 0, edges |-> <<>>]

\* stats() returned a relation with two relationships ahead of a relation
\* with one whose name sorts first
C15_Witness ==
    /\ call.op = "stats"
    /\ Len(ret.edges) = 2
    /\ ret.edges[1].count = 2
    /\ ret.edges[2].count = 1
    /\ LabelRank(ret.edges[1].relation) > LabelRank(ret.edges[2].relation)

\* stats() returned 0 files and no edge count for the empty graph
C15_WitnessEmpty ==
    /\ call.op = "stats"
    /\ Graph = EmptyGraph
    /\ ret = [files |-> 0, edges |-> <<>>]

----------------------------------------------------------------------------
(* From a source tree to the answers of neighbors *)

\* build_graph.py main on the edges.json ast_parser.py wrote, the graph
\* being empty: load_edges(session, edges)
BuildGraphMain ==
    /\ pc = "parse_repo"
    /\ loads = 0
    /\ g_nodes' = load_edges(Graph, out_edges).nodes
    /\ g_rels' = load_edges(Graph, out_edges).rels
    /\ LoaderRan("load_edges", out_edges)

NextPipeline == ParseRepoCall \/ BuildGraphMain \/ NeighborsCall

\* longest ast.walk sequence of pkg/a.py in a tree that is extracted, loaded
\* and queried
MaxWalk == 2

\* a tree not yet extracted, an empty database, and no query made
InitPipeline ==
    /\ HarnessIdle
    /\ StoreIdle
    /\ \/ \E walk \in SeqsUpTo(NodeSet, MaxWalk) :
             fs = [p \in Tree |-> IF p = P_a THEN Parsed(walk) ELSE Parsed(<<>>)]
       \/ InitBatch
    /\ pc = "start"
    /\ file_path = None
    /\ out_edges = <<>>
    /\ GraphIdle
    /\ ServiceIdle

SpecPipeline == InitPipeline /\ [][NextPipeline]_vars

\* the number of rows of `rows` equal to `row`
CountRow(rows, row) == Cardinality({i \in 1..Len(rows) : rows[i] = row})

Row(neighbor, relation, direction) ==
    [neighbor |-> neighbor, relation |-> relation, direction |-> direction]

\* the graph holds what parse_repo extracted from the tree
ExtractedAndLoaded == pc = "parse_repo" /\ loads = 1

\* the tree of the scenario: pkg/a.py imports Bar from pkg/b.py and defines a
\* subclass of it, and no other file has an edge
ScenarioEdges ==
    {EdgeKey(out_edges[i]) : i \in 1..Len(out_edges)}
        = {<<f_a, f_b, "IMPORTS">>, <<f_a, f_b, "INHERITS">>}

\* C12: once the edges extracted from a tree are loaded into an empty graph,
\* every extracted edge (s, t, r) is exactly one row (s, r, in) of
\* neighbors(t, "in") and exactly one row (t, r, out) of neighbors(s, "out"),
\* every row neighbors returns is an extracted edge, and in the scenario
\* neighbors("pkg/b.py", "in") is the IMPORTS row and the INHERITS row of
\* pkg/a.py.
C12_NeighborsAreTheExtractedEdges ==
    ExtractedAndLoaded =>
        LET E == {EdgeKey(out_edges[i]) : i \in 1..Len(out_edges)}
        IN  /\ \A e \in E :
                 /\ CountRow(neighbors(Graph, e[2], "in"), Row(e[1], e[3], "in")) = 1
                 /\ CountRow(neighbors(Graph, e[1], "out"), Row(e[2], e[3], "out")) = 1
            /\ \A f \in QueryFiles :
                 LET rows == neighbors(Graph, f, "both")
                 IN  \A i \in 1..Len(rows) :
                        IF rows[i].direction = "out"
                        THEN <<f, rows[i].neighbor, rows[i].relation>> \in E
                        ELSE <<rows[i].neighbor, f, rows[i].relation>> \in E
            /\ ScenarioEdges =>
                 neighbors(Graph, f_b, "in")
                    = <<Row(f_a, "IMPORTS", "in"), Row(f_a, "INHERITS", "in")>>

\* the scenario was extracted and loaded, and neighbors("pkg/b.py", "in")
\* returned its two rows
C12_Witness ==
    /\ ExtractedAndLoaded
    /\ ScenarioEdges
    /\ call.op = "neighbors"
    /\ call.file_path = f_b
    /\ call.direction = "in"
    /\ Len(ret) = 2

----------------------------------------------------------------------------
(* data_processing/build_bm25_index.py: tokenize *)

LowerCase ==
    <<"a", "b", "c", "d", "e", "f", "g", "h", "i", "j", "k", "l", "m",
      "n", "o", "p", "q", "r", "s", "t", "u", "v", "w", "x", "y", "z">>

UpperCase ==
    <<"A", "B", "C", "D", "E", "F", "G", "H", "I", "J", "K", "L", "M",
      "N", "O", "P", "Q", "R", "S", "T", "U", "V", "W", "X", "Y", "Z">>

Digits == {"0", "1", "2", "3", "4", "5", "6", "7", "8", "9"}

\* the characters str.split() splits at
Whitespace == {" ", "\t", "\n"}

\* c matches [a-z]
IsLower(c) == \E i \in 1..Len(LowerCase) : LowerCase[i] = c

\* c.lower() of one character
ToLower(c) ==
    IF IsUpper(c)
    THEN LowerCase[CHOOSE i \in 1..Len(UpperCase) : UpperCase[i] = c]
    ELSE c

\* str.lower()
Lower(s) == [i \in 1..Len(s) |-> ToLower(s[i])]

RECURSIVE SplitWhitespaceAcc(_, _, _)
SplitWhitespaceAcc(s, cur, acc) ==
    LET flushed == IF cur = <<>> THEN acc ELSE Append(acc, cur)
    IN  IF s = <<>> THEN flushed
        ELSE IF Head(s) \in Whitespace THEN SplitWhitespaceAcc(Tail(s), <<>>, flushed)
        ELSE SplitWhitespaceAcc(Tail(s), Append(cur, Head(s)), acc)

\* str.split(): the runs of characters between whitespace
SplitWhitespace(s) == SplitWhitespaceAcc(s, <<>>, <<>>)

\* tokenize without its first substitution
CamelSplit_None(s) == s

RECURSIVE CamelSplit(_)
\* re.sub(r'([a-z])([A-Z])', r'\1 \2', text): the matches are found from the
\* left and do not overlap
CamelSplit(s) ==
    IF Len(s) < 2 THEN s
    ELSE IF IsLower(s[1]) /\ IsUpper(s[2])
    THEN <<s[1], " ", s[2]>> \o CamelSplit(SubSeq(s, 3, Len(s)))
    ELSE <<s[1]>> \o CamelSplit(Tail(s))

\* c matches [a-zA-Z0-9_]
IsWordChar(c) == IsLower(c) \/ IsUpper(c) \/ c \in Digits \/ c = "_"

\* re.sub(r'[^a-zA-Z0-9_]', ' ', text)
Separate(s) == [i \in 1..Len(s) |-> IF IsWordChar(s[i]) THEN s[i] ELSE " "]

\* tokenize(text)
tokenize(text) ==
    LET tokens == SplitWhitespace(Lower(Separate(CamelSplit(text))))
        Long(t) == Len(t) > 1
    IN  SelectSeq(tokens, Long)

----------------------------------------------------------------------------
(* Calls of tokenize *)

\* longest text drawn from TextChars
MaxText == 4

\* a lower case letter, an upper case letter, a digit, the underscore, a
\* punctuation mark and a blank
TextChars == {"a", "B", "1", "_", ".", " "}

s_BaseRepository ==
    <<"B", "a", "s", "e", "R", "e", "p", "o", "s", "i", "t", "o", "r", "y">>

Texts == SeqsUpTo(TextChars, MaxText) \cup {s_BaseRepository}

\* tokenize is about to be called on a text
InitTokenize ==
    /\ HarnessIdle
    /\ StoreIdle
    /\ ExtractorIdle
    /\ GraphIdle
    /\ chunks = <<>>
    /\ index = <<>>
    /\ query_tokens = <<>>
    /\ ret = None
    /\ \E text \in Texts : call = [op |-> "tokenize called", text |-> text]

\* tokenize(text) returns
TokenizeCall ==
    /\ call.op = "tokenize called"
    /\ call' = [op |-> "tokenize", text |-> call.text]
    /\ ret' = tokenize(call.text)
    /\ UNCHANGED <<extractor_vars, graph_vars, chunks, index, query_tokens, store_vars, harness_vars>>

NextTokenize == TokenizeCall

SpecTokenize == InitTokenize /\ [][NextTokenize]_vars

----------------------------------------------------------------------------
(* Properties of tokenize *)

\* text[i] and text[i + 1] are a lower case letter followed by an upper case
\* letter
CamelBoundary(text, i) ==
    i \in 1..(Len(text) - 1) /\ IsLower(text[i]) /\ IsUpper(text[i + 1])

\* text[s..e] is a word: letters, digits and underscores with no camelCase
\* boundary inside, which cannot be extended on either side
IsWord(text, s, e) ==
    /\ s <= e
    /\ \A i \in s..e : IsWordChar(text[i])
    /\ \A i \in s..(e - 1) : ~CamelBoundary(text, i)
    /\ s = 1 \/ ~IsWordChar(text[s - 1]) \/ CamelBoundary(text, s - 1)
    /\ e = Len(text) \/ ~IsWordChar(text[e + 1]) \/ CamelBoundary(text, e)

\* the start positions of the words of text that have two characters or more
LongWordStarts(text) ==
    {s \in 1..Len(text) : \E e \in (s + 1)..Len(text) : IsWord(text, s, e)}

----------------------------------------------------------------------------
(* rank_bm25.BM25Okapi, as build_bm25_index.py uses it.  A score is an     *)
(* integer number of ten-thousandths, the precision search rounds to.      *)

\* 10000 * math.log(k), rounded, for the odd k that occur
LnOdd(k) ==
    CASE k = 1 -> 0 [] k = 3 -> 10986 [] k = 5 -> 16094 [] k = 7 -> 19459
      [] k = 9 -> 21972 [] k = 11 -> 23979 [] k = 13 -> 25649
      [] k = 15 -> 27081 [] k = 17 -> 28332 [] k = 19 -> 29444

\* the number of occurrences of word w in the token list doc
Frequency(doc, w) == Cardinality({i \in 1..Len(doc) : doc[i] = w})

RECURSIVE SumOver(_, _)
\* the sum of the values of f on the set K
SumOver(f, K) ==
    IF K = {} THEN 0
    ELSE LET k == CHOOSE k \in K : TRUE
         IN  f[k] + SumOver(f, K \ {k})

\* BM25Okapi(corpus) with k1 = 1.5, b = 0.75, epsilon = 0.25
BM25Okapi(corpus) ==
    LET N == Len(corpus)
        words == UNION {{corpus[d][i] : i \in 1..Len(corpus[d])} : d \in 1..N}
        \* nd[word]: the number of documents that hold the word
        nd == [w \in words |-> Cardinality({d \in 1..N : Frequency(corpus[d], w) > 0})]
        \* math.log(corpus_size - freq + 0.5) - math.log(freq + 0.5)
        idf == [w \in words |-> LnOdd(2 * (N - nd[w]) + 1) - LnOdd(2 * nd[w] + 1)]
        average_idf == SumOver(idf, words) \div Cardinality(words)
        eps == average_idf \div 4
    IN  [corpus_size |-> N,
         doc_len |-> [d \in 1..N |-> Len(corpus[d])],
         num_doc |-> SumOver([d \in 1..N |-> Len(corpus[d])], 1..N),
         doc_freqs |-> [d \in 1..N |->
                          [w \in {corpus[d][i] : i \in 1..Len(corpus[d])} |->
                              Frequency(corpus[d], w)]],
         idf |-> [w \in words |-> IF idf[w] < 0 THEN eps ELSE idf[w]]]

\* the share of one query token q in the score of document d:
\*   idf[q] * q_freq * (k1 + 1) / (q_freq + k1 * (1 - b + b * doc_len / avgdl))
\* with avgdl = num_doc / corpus_size, numerator and denominator multiplied
\* by 8 * num_doc
TokenScore(ix, q, d) ==
    LET q_freq == IF q \in DOMAIN ix.doc_freqs[d] THEN ix.doc_freqs[d][q] ELSE 0
        idf == IF q \in DOMAIN ix.idf THEN ix.idf[q] ELSE 0
    IN  (idf * 20 * q_freq * ix.num_doc)
           \div (8 * q_freq * ix.num_doc + 3 * ix.num_doc
                   + 9 * ix.doc_len[d] * ix.corpus_size)

RECURSIVE DocScore(_, _, _)
DocScore(ix, query, d) ==
    IF query = <<>> THEN 0
    ELSE TokenScore(ix, Head(query), d) + DocScore(ix, Tail(query), d)

\* index.get_scores(query): one score per document
get_scores(ix, query) == [d \in 1..ix.corpus_size |-> DocScore(ix, query, d)]

----------------------------------------------------------------------------
(* data_processing/build_bm25_index.py: chunks, build_index, search *)

CodeChunk(path, chunk_type, name, source) ==
    [file_path |-> path, chunk_type |-> chunk_type, name |-> name,
     source |-> source]

\* `source_code[:2000]`
ModuleChars == 2000

\* a file: how reading it ends, the function and class definitions ast.walk
\* finds in it, each with the lines it spans, and the text after them
SourceCode(file) ==
    Join(<<"\n">>, [i \in 1..Len(file.defs) |-> file.defs[i].source]
                      \o <<file.top>>)

\* Path.stem of a file of the tree root
Stem(path) == SubSeq(path, 1, Len(path) - 3)

\* extract_chunks(file_path, repo_root) where it returns
extract_chunks(path, file) ==
    IF file.read = ReadSyntax
    THEN <<CodeChunk(path, "module", Stem(path), SourceCode(file))>>
    ELSE [i \in 1..Len(file.defs) |->
             CodeChunk(path, file.defs[i].chunk_type, file.defs[i].name,
                       file.defs[i].source)]
         \o <<CodeChunk(path, "module", Stem(path),
                        SubSeq(SourceCode(file), 1,
                               Min(ModuleChars, Len(SourceCode(file)))))>>

RECURSIVE AllChunks(_, _)
\* `for py_file in sorted(...)`: a file that cannot be read raises in
\* extract_chunks and is skipped
AllChunks(paths, repo) ==
    IF paths = <<>> THEN <<>>
    ELSE (IF repo[Head(paths)].read = ReadDecode THEN <<>>
          ELSE extract_chunks(Head(paths), repo[Head(paths)]))
         \o AllChunks(Tail(paths), repo)

\* f"{c.file_path} {c.name} {c.source}"
ChunkText(c) == c.file_path \o <<" ">> \o c.name \o <<" ">> \o c.source

\* build_index: the BM25 index over the tokenized chunks
build_index(all_chunks) ==
    BM25Okapi([i \in 1..Len(all_chunks) |-> tokenize(ChunkText(all_chunks[i]))])

\* the place of `file` in the dict file_scores, 0 when it is no key of it
KeyIndex(file_scores, file) ==
    IF \E i \in 1..Len(file_scores) : file_scores[i].file = file
    THEN CHOOSE i \in 1..Len(file_scores) : file_scores[i].file = file
    ELSE 0

RECURSIVE FileScores(_, _, _, _)
\* `for chunk, score in zip(chunks, scores)`: file_scores keeps its keys in
\* the order they were first set
FileScores(cs, scores, i, file_scores) ==
    IF i > Len(cs) \/ i > Len(scores) THEN file_scores
    ELSE LET file == cs[i].file_path
             at == KeyIndex(file_scores, file)
         IN  FileScores(cs, scores, i + 1,
                IF at = 0
                THEN Append(file_scores, [file |-> file, score |-> scores[i]])
                ELSE IF scores[i] > file_scores[at].score
                THEN [file_scores EXCEPT ![at].score = scores[i]]
                ELSE file_scores)

\* the sort called without reverse=True
ScoreGreater_Ascending(a, b) == a.score < b.score

\* key=..., reverse=True: a greater score comes first, equal scores keep
\* their order
ScoreGreater(a, b) == a.score > b.score

\* `ranked[:top_n]` for top_n >= 0
Take(s, n) == SubSeq(s, 1, Min(n, Len(s)))

\* search(index, chunks, query, top_n); round(s, 4) leaves a number of
\* ten-thousandths as it is
search(ix, cs, query, top_n) ==
    LET scores == get_scores(ix, tokenize(query))
        file_scores == FileScores(cs, scores, 1, <<>>)
        ranked == OrderBy(file_scores,
                          [a \in Range(file_scores), b \in Range(file_scores) |->
                              ScoreGreater(a, b)])
    IN  Take(ranked, top_n)

----------------------------------------------------------------------------
(* codecompass/search.py: BM25Backend.search *)

\* `query.lower().split()`
LowerSplit(query) == SplitWhitespace(Lower(query))

\* sorted(range(len(scores)), key=lambda i: scores[i], reverse=True): the
\* chunk numbers, a greater score first, equal scores in ascending order
IndicesByScore(scores) ==
    OrderBy([i \in 1..Len(scores) |-> i],
            [i \in 1..Len(scores), j \in 1..Len(scores) |-> scores[i] > scores[j]])

RECURSIVE TopPerFile(_, _, _, _, _, _)
\* `for idx in top_indices`: the first chunk of each file, until top_n files
\* are found
TopPerFile(top_indices, cs, scores, top_n, k, results) ==
    IF k > Len(top_indices) THEN results
    ELSE LET chunk == cs[top_indices[k]]
             seen_files == {results[i].file : i \in 1..Len(results)}
             found == IF chunk.file_path \notin seen_files
                      THEN Append(results,
                                  [file |-> chunk.file_path,
                                   score |-> scores[top_indices[k]],
                                   chunk_text |-> chunk.source,
                                   chunk_type |-> chunk.chunk_type])
                      ELSE results
         IN  IF Len(found) >= top_n THEN found
             ELSE TopPerFile(top_indices, cs, scores, top_n, k + 1, found)

\* BM25Backend.search(query, top_n) on a loaded index
BM25Backend_search(ix, cs, query, top_n) ==
    LET scores == get_scores(ix, LowerSplit(query))
        top_indices == Take(IndicesByScore(scores), top_n)
    IN  TopPerFile(top_indices, cs, scores, top_n, 1, <<>>)

----------------------------------------------------------------------------
(* harness/sdk/tools.py: semantic_search *)

\* f"{score:.3f}": the score in thousandths
Thousandths(score) == (score + 5) \div 10

RECURSIVE SeenFiles(_, _, _, _, _, _)
\* `for i in top_indices`: seen maps each file to the score of its first
\* chunk, until it has top_n keys
SeenFiles(top_indices, cs, scores, top_n, k, seen) ==
    IF k > Len(top_indices) THEN seen
    ELSE LET file == cs[top_indices[k]].file_path
             found == IF file # <<>> /\ KeyIndex(seen, file) = 0
                      THEN Append(seen, [file |-> file,
                                         score |-> scores[top_indices[k]]])
                      ELSE seen
         IN  IF Len(found) >= top_n THEN found
             ELSE SeenFiles(top_indices, cs, scores, top_n, k + 1, found)

\* semantic_search(query, top_n): the "No results found" message, or one
\* line `<i>. (score <score>)  <file>` per file of seen
semantic_search(ix, cs, query, top_n) ==
    LET scores == get_scores(ix, LowerSplit(query))
        seen == SeenFiles(IndicesByScore(scores), cs, scores, top_n, 1, <<>>)
    IN  [found |-> seen # <<>>,
         lines |-> [i \in 1..Len(seen) |->
                       [file |-> seen[i].file,
                        score |-> Thousandths(seen[i].score)]]]

----------------------------------------------------------------------------
(* Searches of an index *)

\* most function and class definitions in a file
MaxDefs == 1

\* greatest top_n asked for
MaxTopN == 2

f_a_py == <<"a", ".", "p", "y">>
f_b_py == <<"b", ".", "p", "y">>

\* sorted(repo_root.rglob("*.py"))
IndexedFiles == <<f_a_py, f_b_py>>

s_getUser == <<"g", "e", "t", "U", "s", "e", "r">>
s_class_def ==
    <<"c", "l", "a", "s", "s", " ", "B", "a", "s", "e", "R", "e", "p", "o",
      "s", "i", "t", "o", "r", "y", ":">>
s_func_def ==
    <<"d", "e", "f", " ", "g", "e", "t", "U", "s", "e", "r", "(", "d", "b",
      ")", ":">>
s_top == <<"d", "b", " ", "=", " ", "u", "s", "e", "r">>
s_broken == <<"d", "e", "f", " ", "u", "s", "e", "r", "(">>

\* the definitions a file can hold
DefSet ==
    { [chunk_type |-> "class", name |-> s_BaseRepository, source |-> s_class_def],
      [chunk_type |-> "function", name |-> s_getUser, source |-> s_func_def] }

\* a file is unreadable, or does not parse, or holds up to MaxDefs
\* definitions and then nothing or a statement
FileSet ==
    {[read |-> ReadDecode, defs |-> <<>>, top |-> <<>>],
     [read |-> ReadSyntax, defs |-> <<>>, top |-> s_broken]}
    \cup {[read |-> ReadOK, defs |-> ds, top |-> t] :
             ds \in SeqsUpTo(DefSet, MaxDefs), t \in {<<>>, s_top}}

s_user_db == <<"u", "s", "e", "r", " ", "d", "b">>
s_get == <<"g", "e", "t">>
s_zz == <<"z", "z">>

\* a class name, two words, part of a function name, a word in no chunk
Queries == {s_BaseRepository, s_user_db, s_get, s_zz}

\* bm25_index.pkl holds the chunks and the index build_index made of a
\* repository with at least one readable file; no search made yet
InitSearch ==
    /\ HarnessIdle
    /\ StoreIdle
    /\ ExtractorIdle
    /\ GraphIdle
    /\ \E repo \in [{f_a_py, f_b_py} -> FileSet] :
          /\ chunks = AllChunks(IndexedFiles, repo)
          /\ chunks # <<>>
          /\ index = build_index(AllChunks(IndexedFiles, repo))
    /\ call = [op |-> "none"]
    /\ query_tokens = <<>>
    /\ ret = None

\* a search: it looks `tokens` up in the index and returns `result`
Searched(op, query, top_n, tokens, result) ==
    /\ call' = [op |-> op, query |-> query, top_n |-> top_n]
    /\ query_tokens' = tokens
    /\ ret' = result
    /\ UNCHANGED <<extractor_vars, graph_vars, chunks, index, store_vars, harness_vars>>

\* build_bm25_index.search(index, chunks, query, top_n), as the MCP server
\* and main call it
SearchCall ==
    \E query \in Queries, top_n \in 1..MaxTopN :
        Searched("search", query, top_n, tokenize(query),
                 search(index, chunks, query, top_n))

\* BM25Backend.search(query, top_n)
BackendSearchCall ==
    \E query \in Queries, top_n \in 1..MaxTopN :
        Searched("BM25Backend.search", query, top_n, LowerSplit(query),
                 BM25Backend_search(index, chunks, query, top_n))

\* the harness dispatches the tool semantic_search
ToolSearchCall ==
    \E query \in Queries, top_n \in 1..MaxTopN :
        Searched("semantic_search", query, top_n, LowerSplit(query),
                 semantic_search(index, chunks, query, top_n))

NextSearch == SearchCall \/ BackendSearchCall \/ ToolSearchCall

SpecSearch == InitSearch /\ [][NextSearch]_vars

----------------------------------------------------------------------------
(* Properties of the searches *)

SearchOps == {"search", "BM25Backend.search", "semantic_search"}

\* C16: whichever entry point a search is made through, the tokens looked up
\* in the index are the tokens tokenize makes of the query, the tokenizer
\* build_index applied to the chunks.
C16_QueryTokenizedAsChunks ==
    call.op \in SearchOps => query_tokens = tokenize(call.query)

\* the scores the last search computed, one per chunk
Scores == get_scores(index, query_tokens)

\* the numbers of the chunks of a file
ChunksOf(file) == {i \in 1..Len(chunks) : chunks[i].file_path = file}

\* the files of the index
Files == {chunks[i].file_path : i \in 1..Len(chunks)}

\* the aggregated score of a file: the greatest score of its chunks
Aggregated(file) ==
    CHOOSE s \in {Scores[i] : i \in ChunksOf(file)} :
        \A i \in ChunksOf(file) : Scores[i] <= s

\* the number of the first chunk of a file in the chunk list
FirstChunk(file) == CHOOSE i \in ChunksOf(file) : \A j \in ChunksOf(file) : i <= j

\* C18: the list a ranked search returns gives each of its files with the
\* greatest score of the file's chunks, in descending order of that score,
\* no file twice, and files of equal score in the order of their first
\* chunks in the chunk list.
C18_RankedByAggregatedScore ==
    call.op \in {"search", "BM25Backend.search"} =>
        /\ \A i \in 1..Len(ret) :
              /\ ret[i].file \in Files
              /\ ret[i].score = Aggregated(ret[i].file)
        /\ \A i, j \in 1..Len(ret) :
              i < j =>
                 /\ ret[i].file # ret[j].file
                 /\ ret[i].score >= ret[j].score
                 /\ ret[i].score = ret[j].score =>
                       FirstChunk(ret[i].file) < FirstChunk(ret[j].file)

\* search returned the second file ahead of the first, the first having two
\* chunks of different scores
C18_Witness ==
    /\ call.op = "search"
    /\ Len(ret) = 2
    /\ ret[1].file = f_b_py
    /\ ret[1].score > ret[2].score
    /\ \E i, j \in ChunksOf(f_a_py) : Scores[i] < Scores[j]

\* the files of the index, numbered by descending aggregated score: the
\* number of files that come before `file` in the ranking
RankOf(file) ==
    Cardinality({f \in Files :
                    \/ Aggregated(f) > Aggregated(file)
                    \/ /\ Aggregated(f) = Aggregated(file)
                       /\ FirstChunk(f) < FirstChunk(file)})

\* C19: when the index holds at least top_n files, BM25Backend.search(query,
\* top_n) returns exactly top_n entries, and they are the top_n files by
\* aggregated score, in that order.
C19_BackendReturnsTopN ==
    (call.op = "BM25Backend.search" /\ Cardinality(Files) >= call.top_n) =>
        /\ Len(ret) = call.top_n
        /\ \A i \in 1..Len(ret) : RankOf(ret[i].file) = i - 1

\* the words of a token list
TokenSet(tokens) == {tokens[i] : i \in 1..Len(tokens)}

\* no token of the query of the last search, whichever tokenizer made it,
\* occurs in a chunk of the index
NoTokenInIndex ==
    (TokenSet(query_tokens) \cup TokenSet(tokenize(call.query))
        \cup TokenSet(LowerSplit(call.query))) \cap DOMAIN index.idf = {}

\* C20: a ranked search for a query none of whose tokens occurs in a chunk
\* of the index returns the empty list.
C20_AbsentTermReturnsNothing ==
    (call.op \in {"search", "BM25Backend.search"} /\ NoTokenInIndex) =>
        ret = <<>>

\* the words of the chunks of a file, as build_index tokenized them
WordsOf(file) == UNION {DOMAIN index.doc_freqs[i] : i \in ChunksOf(file)}

\* every token of the last query occurs in a chunk of `file`, and none in a
\* chunk of another file
OnlyIn(file) ==
    /\ query_tokens # <<>>
    /\ TokenSet(query_tokens) \subseteq WordsOf(file)
    /\ \A f \in Files \ {file} : TokenSet(query_tokens) \cap WordsOf(f) = {}

\* C21: when the tokens of the query occur in the chunks of one file and in
\* no chunk of another, search returns that file first with a score above
\* zero, and every other file it returns has score zero.
C21_UniqueFileRankedFirst ==
    call.op = "search" =>
        \A file \in Files :
            OnlyIn(file) =>
                /\ ret # <<>>
                /\ ret[1].file = file
                /\ ret[1].score > 0
                /\ \A i \in 2..Len(ret) : ret[i].score = 0

----------------------------------------------------------------------------
(* Builds of an index *)

\* build_index is about to be called on a repository of two files
InitBuild ==
    /\ HarnessIdle
    /\ StoreIdle
    /\ ExtractorIdle
    /\ GraphIdle
    /\ chunks = <<>>
    /\ index = <<>>
    /\ query_tokens = <<>>
    /\ ret = None
    /\ \E repo \in [{f_a_py, f_b_py} -> FileSet] :
          call = [op |-> "build_index called", repo |-> repo]

\* build_index(repo_root) returns the index and the chunks, or BM25Okapi
\* raises on an empty corpus (`num_doc / self.corpus_size`)
BuildIndexCall ==
    /\ call.op = "build_index called"
    /\ LET all_chunks == AllChunks(IndexedFiles, call.repo)
       IN IF all_chunks = <<>>
          THEN /\ call' = [op |-> "build_index raised", repo |-> call.repo]
               /\ ret' = <<"ZeroDivisionError">>
          ELSE /\ call' = [op |-> "build_index", repo |-> call.repo]
               /\ ret' = <<build_index(all_chunks), all_chunks>>
    /\ UNCHANGED <<extractor_vars, graph_vars, chunks, index, query_tokens, store_vars, harness_vars>>

NextBuild == BuildIndexCall

SpecBuild == InitBuild /\ [][NextBuild]_vars

\* the chunks of kind module that the returned collection holds for a file
ModuleChunks(path) ==
    {i \in 1..Len(ret[2]) :
        ret[2][i].file_path = path /\ ret[2][i].chunk_type = "module"}

\* C22: the chunk collection build_index returns holds exactly one chunk of
\* kind module for every .py file of the tree, whether or not the file can
\* be decoded or parsed and whether or not it holds definitions.
C22_OneModuleChunkPerFile ==
    call.op = "build_index" =>
        \A k \in 1..Len(IndexedFiles) :
            Cardinality(ModuleChunks(IndexedFiles[k])) = 1

----------------------------------------------------------------------------
(* The index file: build_bm25_index.main writes it, BM25Backend._load reads it *)

\* `index, chunks = build_index(repo_root)`
MainBuildIndex ==
    /\ writer.pc = "idle"
    /\ writer.build < MaxBuilds
    /\ writer' = [pc |-> "build_index", build |-> writer.build + 1]
    /\ UNCHANGED <<pkl, reader>>
    /\ UNCHANGED <<extractor_vars, graph_vars, service_vars, harness_vars>>

\* `with open(output_path, "wb") as f`: the file exists and is empty
MainOpen ==
    /\ writer.pc = "build_index"
    /\ writer' = [writer EXCEPT !.pc = "open"]
    /\ pkl' = [exists |-> TRUE, build |-> writer.build, written |-> 0]
    /\ UNCHANGED reader
    /\ UNCHANGED <<extractor_vars, graph_vars, service_vars, harness_vars>>

\* pickle.dump(..., f): one more write of the buffered file reaches the disk
MainDump ==
    /\ writer.pc = "open"
    /\ pkl.written < PickleWrites
    /\ pkl' = [pkl EXCEPT !.written = @ + 1]
    /\ UNCHANGED <<writer, reader>>
    /\ UNCHANGED <<extractor_vars, graph_vars, service_vars, harness_vars>>

\* the with block ends and main returns
MainClose ==
    /\ writer.pc = "open"
    /\ pkl.written = PickleWrites
    /\ writer' = [writer EXCEPT !.pc = "idle"]
    /\ UNCHANGED <<pkl, reader>>
    /\ UNCHANGED <<extractor_vars, graph_vars, service_vars, harness_vars>>

\* what pickle.load makes of the file as it is on disk: the dumped data,
\* "Ran out of input" on an empty file, "pickle data was truncated"
pickle_load(file) ==
    IF file.written = PickleWrites
    THEN [kind |-> "data", build |-> file.build]
    ELSE IF file.written = 0
         THEN [kind |-> "EOFError", build |-> file.build]
         ELSE [kind |-> "UnpicklingError", build |-> file.build]

\* BM25Backend._load: `if not self.index_path.exists(): raise FileNotFoundError`
LoadExists(r) ==
    /\ reader[r].pc = "idle"
    /\ reader' = [reader EXCEPT ![r] =
                     IF pkl.exists
                     THEN [pc |-> "open", observed |-> [kind |-> "none"]]
                     ELSE [pc |-> "raised",
                           observed |-> [kind |-> "FileNotFoundError"]]]
    /\ UNCHANGED <<pkl, writer>>
    /\ UNCHANGED <<extractor_vars, graph_vars, service_vars, harness_vars>>

\* BM25Backend._load: `with open(...) as f: data = pickle.load(f)`
LoadPickle(r) ==
    /\ reader[r].pc = "open"
    /\ reader' = [reader EXCEPT ![r] =
                     [pc |-> IF pickle_load(pkl).kind = "data"
                             THEN "loaded" ELSE "raised",
                      observed |-> pickle_load(pkl)]]
    /\ UNCHANGED <<pkl, writer>>
    /\ UNCHANGED <<extractor_vars, graph_vars, service_vars, harness_vars>>

\* another query process starts: BM25Backend() with nothing loaded
NewBackend(r) ==
    /\ reader[r].pc \in {"loaded", "raised"}
    /\ reader' = [reader EXCEPT ![r] =
                     [pc |-> "idle", observed |-> [kind |-> "none"]]]
    /\ UNCHANGED <<pkl, writer>>
    /\ UNCHANGED <<extractor_vars, graph_vars, service_vars, harness_vars>>

InitStore == ExtractorIdle /\ GraphIdle /\ ServiceIdle /\ StoreIdle /\ HarnessIdle

NextStore ==
    \/ MainBuildIndex
    \/ MainOpen
    \/ MainDump
    \/ MainClose
    \/ \E r \in Readers : LoadExists(r)
    \/ \E r \in Readers : LoadPickle(r)
    \/ \E r \in Readers : NewBackend(r)

SpecStore == InitStore /\ [][NextStore]_vars

\* C23: a reader that loads the index while it is being built observes no
\* index, or the complete index of an earlier build, or the complete index
\* of the new build, and never a partially written file.
C23_IndexNeverPartial ==
    \A r \in Readers :
        reader[r].pc \in {"loaded", "raised"} =>
            \/ reader[r].observed.kind = "FileNotFoundError"
            \/ /\ reader[r].observed.kind = "data"
               /\ reader[r].observed.build \in 1..writer.build

----------------------------------------------------------------------------
(* codecompass/cli.py: the commands neighbors and search *)

\* os.getenv("BM25_INDEX_PATH", "bm25_index.pkl")
index_path == "bm25_index.pkl"

NoException == [type |-> "none"]

\* sys.exit(code)
SystemExit(code) == [type |-> "SystemExit", code |-> code]

\* isinstance(e, Exception): SystemExit derives from BaseException only
IsException_Base(e) == e.type # "none"
IsException(e) == e.type \notin {"none", "SystemExit"}

\* BM25Backend._load: the exception it raises when the file does not exist
BM25Backend_load_Unchecked(exists) ==
    IF exists THEN NoException
    ELSE [type |-> "FileNotFoundError", path |-> index_path, command |-> "none"]
BM25Backend_load(exists) ==
    IF exists THEN NoException
    ELSE [type |-> "FileNotFoundError", path |-> index_path,
          command |-> "python data_processing/build_bm25_index.py --repo <path>"]

\* BM25Backend(index_path).search(query, top_n): what it returns or raises
BM25Backend_call(file, ix, cs, query, top_n) ==
    IF BM25Backend_load(file.exists) # NoException
    THEN [raised |-> BM25Backend_load(file.exists), results |-> <<>>]
    ELSE [raised |-> NoException,
          results |-> BM25Backend_search(ix, cs, query, top_n)]

\* click.echo(f"Error: {e}", err=True)
ErrorLine(e) == [line |-> "Error: {e}", e |-> e]

\* the process a command ends as: what it printed, and its exit status
Exit(stdout, stderr, code) ==
    [stdout |-> stdout, stderr |-> stderr, exit_code |-> code]

\* the try block of the command neighbors: its output and how it ends
neighbors_try(g, up, path, direction, output_json) ==
    IF ~up
    THEN [stdout |-> <<>>, stderr |-> <<>>,
          raised |-> [type |-> "ServiceUnavailable"]]
    ELSE LET results == neighbors(g, path, direction)
         IN  IF results = <<>>
             THEN [stdout |-> <<>>,
                   stderr |-> <<[line |-> "No structural neighbors found for '{file_path}'.",
                                 file_path |-> path]>>,
                   raised |-> SystemExit(1)]
             ELSE [stdout |->
                       IF output_json
                       THEN <<[line |-> "json.dumps(results)", results |-> results]>>
                       ELSE <<[line |-> "Structural neighbors of '{file_path}':",
                               file_path |-> path]>>
                            \o [i \in 1..Len(results) |->
                                   [line |-> "  {arrow} [{relation}]  {neighbor}",
                                    arrow |-> IF results[i].direction = "out"
                                              THEN "->" ELSE "<-",
                                    relation |-> results[i].relation,
                                    neighbor |-> results[i].neighbor]]
                            \o <<[line |-> "Total: {n} structural connections",
                                  n |-> Len(results)]>>,
                   stderr |-> <<>>,
                   raised |-> NoException]

\* the command neighbors, with its `except Exception`
cli_neighbors(g, up, path, direction, output_json) ==
    LET try == neighbors_try(g, up, path, direction, output_json)
    IN  IF IsException(try.raised)
        THEN Exit(try.stdout,
                  try.stderr \o <<ErrorLine(try.raised),
                                  [line |-> "Is Neo4j running? Try: docker compose up -d neo4j"]>>,
                  1)
        ELSE Exit(try.stdout, try.stderr,
                  IF try.raised.type = "SystemExit" THEN try.raised.code ELSE 0)

\* the try block of the command search
search_try(file, ix, cs, query, top, output_json) ==
    LET found == BM25Backend_call(file, ix, cs, query, top)
    IN  IF found.raised # NoException
        THEN [stdout |-> <<>>, stderr |-> <<>>, raised |-> found.raised]
        ELSE IF found.results = <<>>
        THEN [stdout |-> <<>>,
              stderr |-> <<[line |-> "No results found for query: '{query}'",
                            query |-> query]>>,
              raised |-> SystemExit(1)]
        ELSE [stdout |->
                  IF output_json
                  THEN <<[line |-> "json.dumps(results)", results |-> found.results]>>
                  ELSE <<[line |-> "Top {n} files for '{query}':",
                          n |-> Len(found.results), query |-> query]>>
                       \o [i \in 1..Len(found.results) |->
                              [line |-> "  {i}. (score {score})  {file}",
                               i |-> i,
                               score |-> Thousandths(found.results[i].score),
                               file |-> found.results[i].file]],
              stderr |-> <<>>,
              raised |-> NoException]

\* the command search, with its `except FileNotFoundError` and
\* `except Exception`
cli_search(file, ix, cs, query, top, output_json) ==
    LET try == search_try(file, ix, cs, query, top, output_json)
    IN  IF try.raised.type = "FileNotFoundError" \/ IsException(try.raised)
        THEN Exit(try.stdout, try.stderr \o <<ErrorLine(try.raised)>>, 1)
        ELSE Exit(try.stdout, try.stderr,
                  IF try.raised.type = "SystemExit" THEN try.raised.code ELSE 0)

(* Runs of the commands *)

\* longest edge list loaded into the graph the commands query
MaxCliEdges == 1

f_empty_py == [read |-> ReadOK, defs |-> <<>>, top |-> <<>>]

\* a loaded graph, and bm25_index.pkl either not built or built of a
\* repository of two files; each command is one run of the program
InitCli ==
    /\ HarnessIdle
    /\ ExtractorIdle
    /\ \E edges \in SeqsUpTo(QueryEdgeSet, MaxCliEdges) :
          /\ g_nodes = load_edges(EmptyGraph, edges).nodes
          /\ g_rels = load_edges(EmptyGraph, edges).rels
          /\ edges_json = edges
    /\ loader = "load_edges"
    /\ loads = 1
    /\ reloaded = FALSE
    /\ deleted = 0
    /\ \/ ServiceIdle /\ StoreIdle
       \/ /\ \E file \in FileSet :
                LET repo == [p \in {f_a_py, f_b_py} |->
                                IF p = f_a_py THEN file ELSE f_empty_py]
                IN  /\ chunks = AllChunks(IndexedFiles, repo)
                    /\ index = build_index(AllChunks(IndexedFiles, repo))
          /\ call = [op |-> "none"]
          /\ query_tokens = <<>>
          /\ ret = None
          /\ pkl = [exists |-> TRUE, build |-> 1, written |-> PickleWrites]
          /\ writer = [pc |-> "idle", build |-> 1]
          /\ reader = [r \in Readers |-> [pc |-> "idle", observed |-> [kind |-> "none"]]]

\* `codecompass neighbors FILE_PATH --direction D [--json]`, Neo4j up or not
CliNeighbors ==
    \E path \in QueryFiles, direction \in Directions, up \in BOOLEAN,
       output_json \in BOOLEAN :
        call.op = "none" /\
        Queried([op |-> "cli neighbors", file_path |-> path,
                 direction |-> direction, up |-> up, output_json |-> output_json],
                cli_neighbors(Graph, up, path, direction, output_json))

\* `codecompass search QUERY --top N [--json]`
CliSearch ==
    \E query \in Queries, top \in 0..MaxTopN, output_json \in BOOLEAN :
        call.op = "none" /\
        Queried([op |-> "cli search", query |-> query, top |-> top,
                 output_json |-> output_json],
                cli_search(pkl, index, chunks, query, top, output_json))

\* BM25Backend().search(query, top_n) of a new backend
BackendCall ==
    \E query \in Queries, top_n \in 0..MaxTopN :
        call.op = "none" /\
        Queried([op |-> "BM25Backend().search", query |-> query, top_n |-> top_n],
                BM25Backend_call(pkl, index, chunks, query, top_n))

NextCli == CliNeighbors \/ CliSearch \/ BackendCall

SpecCli == InitCli /\ [][NextCli]_vars

\* the lines of a given text among those printed
Lines(printed, text) == {i \in 1..Len(printed) : printed[i].line = text}

\* the index-not-found error: it names the expected path and the build
\* command
IndexNotFound(e) ==
    /\ e.type = "FileNotFoundError"
    /\ e.path = index_path
    /\ e.command = "python data_processing/build_bm25_index.py --repo <path>"

\* C24: a search made while no index file exists fails with the
\* index-not-found error that names the expected path and the build
\* command: the facade raises it and returns no result list, the command
\* prints it and exits non-zero, and the no-results message is not printed.
C24_MissingIndexIsItsOwnError ==
    ~pkl.exists =>
        /\ call.op = "BM25Backend().search" =>
              IndexNotFound(ret.raised) /\ ret.results = <<>>
        /\ call.op = "cli search" =>
              /\ ret.exit_code # 0
              /\ ret.stdout = <<>>
              /\ Len(ret.stderr) = 1
              /\ ret.stderr[1].line = "Error: {e}"
              /\ IndexNotFound(ret.stderr[1].e)
              /\ Lines(ret.stderr, "No results found for query: '{query}'") = {}

C24_Witness ==
    /\ ~pkl.exists
    /\ call.op = "cli search"
    /\ ret.exit_code = 1

C24_WitnessFacade ==
    /\ ~pkl.exists
    /\ call.op = "BM25Backend().search"
    /\ ret.raised.type = "FileNotFoundError"

\* the last command ran a query that found nothing
ZeroResults ==
    \/ /\ call.op = "cli neighbors"
       /\ call.up
       /\ neighbors(Graph, call.file_path, call.direction) = <<>>
    \/ /\ call.op = "cli search"
       /\ pkl.exists
       /\ BM25Backend_search(index, chunks, call.query, call.top) = <<>>

NoResultsLines ==
    {"No structural neighbors found for '{file_path}'.",
     "No results found for query: '{query}'"}

\* C25: a neighbors or search command whose query has zero results prints
\* the no-results message and nothing else, and exits non-zero; the exit is
\* not caught and reported again as a backend failure, and no command exits
\* 0 having printed nothing.
C25_NoResultsIsReported ==
    call.op \in {"cli neighbors", "cli search"} =>
        /\ ~(ret.exit_code = 0 /\ ret.stdout = <<>>)
        /\ ZeroResults =>
              /\ ret.exit_code # 0
              /\ ret.stdout = <<>>
              /\ Len(ret.stderr) = 1
              /\ ret.stderr[1].line \in NoResultsLines

C25_Witness ==
    /\ call.op = "cli neighbors"
    /\ ZeroResults
    /\ ret.exit_code = 1
    /\ g_rels # <<>>

C25_WitnessSearch ==
    /\ call.op = "cli search"
    /\ ZeroResults
    /\ ret.exit_code = 1

----------------------------------------------------------------------------
(* Further properties of the extractor *)

\* the callee names of the call expressions of the file last extracted: a
\* plain name or the final attribute name
CalleeNames == UsedNames(WalkOf(file_path), "INSTANTIATES") \ {None}

Instantiates == {j \in 1..Len(out_edges) : out_edges[j].relation = "INSTANTIATES"}

\* C26: every INSTANTIATES edge extract_edges returns is that of a call
\* whose callee name begins with an uppercase letter, and a file whose
\* callee names all begin with a lowercase letter or an underscore yields no
\* INSTANTIATES edge, whatever it imports.
C26_InstantiatesOnlyUppercase ==
    pc = "extract_edges" =>
        /\ \A j \in Instantiates :
              \E name \in CalleeNames :
                  /\ name[1] \in Upper
                  /\ out_edges[j].meta = s_calls \o name \o s_parens
        /\ (\A name \in CalleeNames : name[1] \notin Upper) => Instantiates = {}

\* a file that imports a file of the tree and calls h() and _Make()
C26_Witness ==
    /\ pc = "extract_edges"
    /\ CalleeNames = {s_h, s__Make}
    /\ \E j \in 1..Len(out_edges) : out_edges[j].relation = "IMPORTS"
    /\ Instantiates = {}

\* the edges the file last extracted gave rise to, before deduplication
Detected == RawEdges(file_path, fs)

\* the places where a triple is detected for the first time
FirstDetections ==
    {i \in 1..Len(Detected) :
        \A h \in 1..(i - 1) : EdgeKey(Detected[h]) # EdgeKey(Detected[i])}

\* C29: of the detections of one (source, target, relation) triple,
\* extract_edges returns exactly the first, with its metadata as detected,
\* and the edges it returns are in the order of their first detection.
C29_FirstDetectionKept ==
    (pc = "extract_edges" /\ fs[file_path].read = ReadOK) =>
        /\ Len(out_edges) = Cardinality(FirstDetections)
        /\ \A j \in 1..Len(out_edges) :
              \E i \in FirstDetections :
                  /\ out_edges[j] = Detected[i]
                  /\ Cardinality({h \in FirstDetections : h < i}) = j - 1

\* one triple detected twice with different metadata (Bar() and x.Foo()
\* after one import), the first kept
C29_Witness ==
    /\ pc = "extract_edges"
    /\ \E h, i \in 1..Len(Detected) :
          /\ h < i
          /\ Derived(Detected[h])
          /\ EdgeKey(Detected[h]) = EdgeKey(Detected[i])
          /\ Detected[h].meta # Detected[i].meta
          /\ \E j \in 1..Len(out_edges) : out_edges[j] = Detected[h]

----------------------------------------------------------------------------
(* Resolutions of a module name *)

\* dotted names: a module that is also a package, a package, modules of a
\* package, a module outside the tree, a module of a package named alone
Modules == {s_m, s_pkg, s_pkg_a, s_pkg_b, s_os, s_b}

\* resolve_import_to_path is about to be called on a module name, under a
\* tree root that holds some of the files of Tree
InitResolve ==
    /\ HarnessIdle
    /\ ExtractorIdle
    /\ GraphIdle
    /\ StoreIdle
    /\ chunks = <<>>
    /\ index = <<>>
    /\ query_tokens = <<>>
    /\ ret = None
    /\ \E module \in Modules, tree \in SUBSET Tree :
          call = [op |-> "resolve_import_to_path called",
                  module |-> module, tree |-> tree]

\* resolve_import_to_path(module, current_file, repo_root) returns
ResolveCall ==
    /\ call.op = "resolve_import_to_path called"
    /\ call' = [call EXCEPT !.op = "resolve_import_to_path"]
    /\ ret' = resolve_import_to_path(call.module, call.tree)
    /\ UNCHANGED <<extractor_vars, graph_vars, chunks, index, query_tokens, store_vars, harness_vars>>

NextResolve == ResolveCall

SpecResolve == InitResolve /\ [][NextResolve]_vars

\* <segments>.py and <segments>/__init__.py of the module name resolved
SegmentsPy == WithSuffixPy(Split(call.module, "."))
SegmentsInit == Append(Split(call.module, "."), s_init)

\* C28: resolve_import_to_path returns the path of <segments>.py when the
\* tree holds it, whether or not it holds <segments>/__init__.py too, else
\* the path of <segments>/__init__.py when the tree holds that, else None;
\* a path it returns is that of a file of the tree.
C28_ResolutionOrder ==
    call.op = "resolve_import_to_path" =>
        /\ SegmentsPy \in call.tree => ret = PathStr(SegmentsPy)
        /\ (SegmentsPy \notin call.tree /\ SegmentsInit \in call.tree) =>
              ret = PathStr(SegmentsInit)
        /\ (SegmentsPy \notin call.tree /\ SegmentsInit \notin call.tree) =>
              ret = None
        /\ ret # None => \E p \in call.tree : ret = PathStr(p)

\* m resolved under a tree that holds both m.py and m/__init__.py
C28_Witness ==
    /\ call.op = "resolve_import_to_path"
    /\ SegmentsPy \in call.tree
    /\ SegmentsInit \in call.tree
    /\ ret = PathStr(P_m)

C28_WitnessPackage ==
    /\ call.op = "resolve_import_to_path"
    /\ SegmentsPy \notin call.tree
    /\ ret = PathStr(P_pkg)

----------------------------------------------------------------------------
(* Repeated runs of parse_repo *)

\* most runs of parse_repo over one tree
MaxRuns == 2

\* find_python_files returning the files in the order rglob lists them
SortedListing_AsListed(listing) == listing

\* find_python_files: sorted(...) of the files as repo_root.rglob lists them
SortedListing(listing) == find_python_files(Range(listing))

\* parse_repo(repo_root) when rglob lists the files in the order `listing`
parse_repo_listed(listing, files) ==
    ExtendAll(SortedListing(listing), <<>>, files)

\* a tree of files, parseable or not, and no run made
InitRerun ==
    /\ HarnessIdle
    /\ InitBatch
    /\ pc = "start"
    /\ file_path = None
    /\ out_edges = <<>>
    /\ GraphIdle
    /\ StoreIdle
    /\ chunks = <<>>
    /\ index = <<>>
    /\ query_tokens = <<>>
    /\ call = [op |-> "none", runs |-> 0]
    /\ ret = None

\* one more run of parse_repo over the unchanged tree, rglob listing the
\* files in any order; ret keeps the list the run before returned
ParseRepoRerun ==
    /\ call.runs < MaxRuns
    /\ \E listing \in Perms(Tree) :
          out_edges' = parse_repo_listed(listing, fs)
    /\ pc' = "parse_repo"
    /\ call' = [op |-> "parse_repo", runs |-> call.runs + 1]
    /\ ret' = IF call.runs = 0 THEN None ELSE out_edges
    /\ UNCHANGED <<fs, file_path, graph_vars, chunks, index, query_tokens, store_vars, harness_vars>>

NextRerun == ParseRepoRerun

SpecRerun == InitRerun /\ [][NextRerun]_vars

\* C27: a run of parse_repo over a tree returns the list the run before it
\* returned over the same tree: the same edges, with the same metadata, in
\* the same order.
C27_RerunIsIdentical ==
    call.op = "parse_repo" /\ call.runs >= 2 => out_edges = ret

\* two runs over a tree in which two files have edges, one with metadata
C27_Witness ==
    /\ call.op = "parse_repo"
    /\ call.runs = 2
    /\ \E i, j \in 1..Len(out_edges) :
          /\ out_edges[i].source # out_edges[j].source
          /\ Derived(out_edges[i])

----------------------------------------------------------------------------
(* harness/sdk/run_all_sdk.py: run_all and the failed markers *)

\* most run numbers selected with --runs
MaxTrials == 2

\* DEFAULT_MAX_RETRIES
max_retries == 3

\* the selected trials, in the order build_trial_list walks them
AllTrials == [r \in 1..MaxTrials |-> <<"01", "A", r>>]

total_possible == Len(AllTrials)

\* count_completed: the selected trials that are not pending
completed_initial == total_possible - Len(trials)

\* build_trial_list: the selected trials without those `complete`
build_trial_list(complete) ==
    SelectSeq(AllTrials, LAMBDA t : t \notin complete)

\* write_failed_marker(task_id, condition, run_num, error)
write_failed_marker(markers, t) == markers \cup {t}

\* clear_failed_marker(task_id, condition, run_num)
clear_failed_marker(markers, t) == markers \ {t}

\* run_all has built the list of pending trials, which is not empty, and is
\* about to enter `for task_id, condition, run_num in trials`; a pending
\* trial may have a failed marker of an earlier run
InitHarness ==
    /\ ExtractorIdle
    /\ GraphIdle
    /\ ServiceIdle
    /\ StoreIdle
    /\ \E complete \in SUBSET Range(AllTrials) :
          /\ trials = build_trial_list(complete)
          /\ trials # <<>>
          /\ failed_markers \in SUBSET (Range(AllTrials) \ complete)
    /\ trial = 0
    /\ attempt = 0
    /\ last_error = None
    /\ completed_count = completed_initial
    /\ failed_trials = <<>>
    /\ stmt = "for trial"

\* `for task_id, condition, run_num in trials`: the next trial, or the end
\* of the loop
NextTrial ==
    /\ stmt = "for trial"
    /\ IF trial < Len(trials)
       THEN /\ trial' = trial + 1
            /\ last_error' = None
            /\ attempt' = 0
            /\ stmt' = "for attempt"
       ELSE /\ stmt' = "summary"
            /\ UNCHANGED <<trial, last_error, attempt>>
    /\ UNCHANGED <<trials, completed_count, failed_trials, failed_markers>>
    /\ UNCHANGED <<extractor_vars, graph_vars, service_vars, store_vars>>

\* an iteration of `for attempt in range(1, max_retries + 1)` begins:
\* clear_failed_marker, then run_trial ends in `outcome`
Attempt(outcome) ==
    /\ stmt = "for attempt"
    /\ attempt < max_retries
    /\ attempt' = attempt + 1
    /\ failed_markers' = clear_failed_marker(failed_markers, trials[trial])
    /\ UNCHANGED <<trials, trial, failed_trials>>
    /\ outcome
    /\ UNCHANGED <<extractor_vars, graph_vars, service_vars, store_vars>>

\* run_trial returns its metrics: `completed_count += 1 ... break`
TrialSucceeds ==
    Attempt(/\ completed_count' = completed_count + 1
            /\ last_error' = None
            /\ stmt' = "after retries")

\* `except anthropic.RateLimitError`: wait, then the next attempt
TrialRateLimited ==
    Attempt(/\ stmt' = "for attempt"
            /\ UNCHANGED <<completed_count, last_error>>)

\* `except anthropic.AuthenticationError`: raise, run_all is left
TrialAuthError ==
    Attempt(/\ stmt' = "aborted"
            /\ UNCHANGED <<completed_count, last_error>>)

\* `except Exception as e`: last_error = f"{type(e).__name__}: {e}"
TrialFails ==
    Attempt(/\ last_error' = <<"Exception: e", attempt + 1>>
            /\ stmt' = "for attempt"
            /\ UNCHANGED completed_count)

\* range(1, max_retries + 1) is used up
RetriesExhausted ==
    /\ stmt = "for attempt"
    /\ attempt = max_retries
    /\ stmt' = "after retries"
    /\ UNCHANGED <<trials, trial, attempt, last_error, completed_count,
                   failed_trials, failed_markers>>
    /\ UNCHANGED <<extractor_vars, graph_vars, service_vars, store_vars>>

\* `if last_error is not None: write_failed_marker(...);
\* failed_trials.append(...)`, then `time.sleep(pause)`
AfterRetries ==
    /\ stmt = "after retries"
    /\ IF last_error # None
       THEN /\ failed_markers' = write_failed_marker(failed_markers, trials[trial])
            /\ failed_trials' = Append(failed_trials,
                                       Append(trials[trial], last_error))
       ELSE UNCHANGED <<failed_markers, failed_trials>>
    /\ stmt' = "pause"
    /\ UNCHANGED <<trials, trial, attempt, last_error, completed_count>>
    /\ UNCHANGED <<extractor_vars, graph_vars, service_vars, store_vars>>

\* time.sleep(pause) returns
Pause ==
    /\ stmt = "pause"
    /\ stmt' = "for trial"
    /\ UNCHANGED <<trials, trial, attempt, last_error, completed_count,
                   failed_trials, failed_markers>>
    /\ UNCHANGED <<extractor_vars, graph_vars, service_vars, store_vars>>

NextHarness ==
    \/ NextTrial
    \/ TrialSucceeds
    \/ TrialRateLimited
    \/ TrialAuthError
    \/ TrialFails
    \/ RetriesExhausted
    \/ AfterRetries
    \/ Pause

SpecHarness == InitHarness /\ [][NextHarness]_vars

\* the entries of failed_trials for a trial
FailedEntries(t) ==
    {i \in 1..Len(failed_trials) : SubSeq(failed_trials[i], 1, 3) = t}

\* the trials whose retry loop has finished
Finished == IF stmt \in {"pause", "for trial", "summary"} THEN trial ELSE trial - 1

\* C30: when the retry loop of a trial has finished without aborting, every
\* trial finished so far is recorded exactly once, as a success (the
\* completed count went up by one for it, it has no failed marker) or as a
\* failure (it has a failed marker and one entry in failed_trials); none
\* ends with neither.
C30_EveryTrialRecorded ==
    stmt = "pause" =>
        /\ (completed_count - completed_initial) + Len(failed_trials) = Finished
        /\ Cardinality(FailedEntries(trials[trial])) <= 1
        /\ trials[trial] \in failed_markers <=> FailedEntries(trials[trial]) # {}

=============================================================================
